---- MODULE Spec2Model ----
(***************************************************************************)
(* A model of the mkv_transcoder job queue (mkv_transcoder/job_queue.py),  *)
(* of the worker loop (worker.py) and of the checkpointed pipeline         *)
(* (Transcoder.transcode in mkv_transcoder/transcoder.py).                 *)
(*                                                                         *)
(* The persisted document is the sequence `jobs` (queue['jobs'], in file   *)
(* order).  Every queue operation of job_queue.py is a pure operator on    *)
(* that sequence returning the new sequence and the operation's result; an *)
(* action applies it as one transaction of _execute_with_lock, which holds *)
(* the exclusive lock over its load, operation and write.                  *)
(*                                                                         *)
(* Values the code takes from its environment are drawn from small sets:   *)
(* uuid4() is any identifier not in use, time.time() in add_job is any     *)
(* value of Times (producers run on different machines, so it need not be  *)
(* monotonic in file order), and the outcome of a step's external tool is  *)
(* success, failure or an exception.  The timestamps claimed_at and        *)
(* completed_at are never read by the code; they are kept as "none"/"set". *)
(***************************************************************************)
EXTENDS Integers, Sequences, FiniteSets, TLC

\* ------------------------------------------------------------------ bounds
MaxJobs == 2
MaxTime == 2
MaxEvents == 1
MaxClaims == 3
SoloJobs == 1
FewClaims == 2
RetryClaims == 4
RequeueClaims == 6
CrashEvents == 2
OneClaim == 1
ManyClaims == 7

\* ------------------------------------------------------- program constants
max_retries == 3

Workers == {"w1", "w2"}
Paths == {"a.mkv", "b.mkv"}
JobTypes == {"standard", "dolby_vision"}
JobTypeArgs == JobTypes \cup {"other"}
Ids == 1..MaxJobs
Times == 1..MaxTime
NoId == 0
NoPath == "none"
NoWorker == "none"
NoOutput == <<>>

StandardSteps == <<"copy_source", "get_metadata", "reencode_x265", "move_final">>

DolbyVisionSteps ==
    <<"copy_source", "get_metadata", "extract_p7", "convert_p8", "extract_rpu",
      "reencode_x265", "inject_rpu", "remux_final", "move_final">>

step_order == DolbyVisionSteps

StepsOf(job_type) ==
    IF job_type = "dolby_vision" THEN DolbyVisionSteps ELSE StandardSteps

Range(s) == {s[i] : i \in 1..Len(s)}

StepNames == Range(DolbyVisionSteps)

\* The dictionary add_job builds: every step of the type's list, pending.
NewSteps(job_type) == [n \in Range(StepsOf(job_type)) |-> "pending"]

\* ------------------------------------------------------------- job records
NoJob ==
    [id |-> NoId, input_path |-> NoPath, job_type |-> "none", status |-> "none",
     worker_id |-> NoWorker, output_path |-> NoOutput, added_at |-> 0, retries |-> 0,
     steps |-> [n \in {} |-> "pending"], claimed_at |-> "none", completed_at |-> "none"]

IndexOfId(queue, job_id) ==
    LET hits == {i \in 1..Len(queue) : queue[i].id = job_id}
    IN  IF hits = {} THEN 0 ELSE CHOOSE i \in hits : \A k \in hits : i <= k

IndexOfMatch(queue, job_id, input_path) ==
    LET hits == {i \in 1..Len(queue) :
                    \/ (job_id # NoId /\ queue[i].id = job_id)
                    \/ (input_path # NoPath /\ queue[i].input_path = input_path)}
    IN  IF hits = {} THEN 0 ELSE CHOOSE i \in hits : \A k \in hits : i <= k

\* ------------------------------------------------------- queue operations
\* Each returns [queue |-> the document to write back, ok |-> truthiness of
\* the result, job |-> the record returned (NoJob when the result is no record)].

\* add_job without its scan for a record of the same input_path.
add_job_unchecked(queue, input_path, job_type, new_id, now) ==
    IF job_type \notin JobTypes
    THEN [queue |-> queue, ok |-> FALSE, job |-> NoJob]
    ELSE [queue |-> Append(queue,
                      [id |-> new_id, input_path |-> input_path, job_type |-> job_type,
                       status |-> "pending", worker_id |-> NoWorker,
                       output_path |-> NoOutput, added_at |-> now, retries |-> 0,
                       steps |-> NewSteps(job_type),
                       claimed_at |-> "none", completed_at |-> "none"]),
          ok |-> TRUE, job |-> NoJob]

\* add_job taking every job type it does not know for a standard one.
add_job_defaulting(queue, input_path, job_type, new_id, now) ==
    IF \E i \in 1..Len(queue) : queue[i].input_path = input_path
    THEN [queue |-> queue, ok |-> FALSE, job |-> NoJob]
    ELSE [queue |-> Append(queue,
                      [id |-> new_id, input_path |-> input_path, job_type |-> job_type,
                       status |-> "pending", worker_id |-> NoWorker,
                       output_path |-> NoOutput, added_at |-> now, retries |-> 0,
                       steps |-> NewSteps(job_type),
                       claimed_at |-> "none", completed_at |-> "none"]),
          ok |-> TRUE, job |-> NoJob]

add_job_op(queue, input_path, job_type, new_id, now) ==
    IF \E i \in 1..Len(queue) : queue[i].input_path = input_path
    THEN [queue |-> queue, ok |-> FALSE, job |-> NoJob]
    ELSE IF job_type \notin JobTypes
    THEN [queue |-> queue, ok |-> FALSE, job |-> NoJob]
    ELSE [queue |-> Append(queue,
                      [id |-> new_id, input_path |-> input_path, job_type |-> job_type,
                       status |-> "pending", worker_id |-> NoWorker,
                       output_path |-> NoOutput, added_at |-> now, retries |-> 0,
                       steps |-> NewSteps(job_type),
                       claimed_at |-> "none", completed_at |-> "none"]),
          ok |-> TRUE, job |-> NoJob]

\* The quarantine loop with "retries > max_retries" for "retries >= max_retries".
QuarantineAbove(queue, maxr) ==
    [i \in 1..Len(queue) |->
        IF queue[i].status = "failed" /\ queue[i].retries > maxr
        THEN [queue[i] EXCEPT !.status = "failed_permanent"]
        ELSE queue[i]]

\* A quarantine loop that stops at the first record it flips.
QuarantineFirst(queue, maxr) ==
    LET hits == {i \in 1..Len(queue) :
                    queue[i].status = "failed" /\ queue[i].retries >= maxr}
    IN  [i \in 1..Len(queue) |->
            IF i \in hits /\ \A k \in hits : i <= k
            THEN [queue[i] EXCEPT !.status = "failed_permanent"]
            ELSE queue[i]]

\* The first loop of _get_and_update_op.
Quarantine(queue, maxr) ==
    [i \in 1..Len(queue) |->
        IF queue[i].status = "failed" /\ queue[i].retries >= maxr
        THEN [queue[i] EXCEPT !.status = "failed_permanent"]
        ELSE queue[i]]

\* sorted(queue['jobs'], key=added_at) as the indices of the records in sorted
\* order; Python's sort is stable, so equal keys keep their file order.
RECURSIVE InsertByAddedAt(_, _, _)
InsertByAddedAt(queue, sorted, i) ==
    IF sorted = <<>> THEN <<i>>
    ELSE IF queue[sorted[Len(sorted)]].added_at <= queue[i].added_at
    THEN Append(sorted, i)
    ELSE Append(InsertByAddedAt(queue, SubSeq(sorted, 1, Len(sorted) - 1), i),
                sorted[Len(sorted)])

RECURSIVE SortedByAddedAt(_, _)
SortedByAddedAt(queue, n) ==
    IF n = 0 THEN <<>> ELSE InsertByAddedAt(queue, SortedByAddedAt(queue, n - 1), n)

\* The selection loop taking any record that is not running or quarantined.
ClaimableOrDone(job) == job.status \in {"pending", "failed", "done"}

\* The selection loop taking any record that is not running or done.
ClaimableOrQuarantined(job) == job.status \in {"pending", "failed", "failed_permanent"}

Claimable(job) == job.status \in {"pending", "failed"}

\* The selection loop over queue['jobs'] as stored, without the sort.
SelectNextInFileOrder(queue) ==
    LET hits == {i \in 1..Len(queue) : Claimable(queue[i])}
    IN  IF hits = {} THEN 0 ELSE CHOOSE i \in hits : \A k \in hits : i <= k

\* The second loop of _get_and_update_op: the index of the record it takes, 0 for none.
SelectNext(queue) ==
    LET order == SortedByAddedAt(queue, Len(queue))
        hits  == {k \in 1..Len(order) : Claimable(queue[order[k]])}
    IN  IF hits = {} THEN 0
        ELSE order[CHOOSE k \in hits : \A m \in hits : k <= m]

\* A claim that returns the record as it was before the claim was written on it.
get_then_update_op(queue, worker_id, maxr) ==
    LET q1 == Quarantine(queue, maxr)
        i  == SelectNext(q1)
    IN  IF i = 0 THEN [queue |-> q1, ok |-> FALSE, job |-> NoJob]
        ELSE LET job == [q1[i] EXCEPT !.status = "running",
                                      !.worker_id = worker_id,
                                      !.claimed_at = "set",
                                      !.retries = q1[i].retries + 1]
             IN  [queue |-> [q1 EXCEPT ![i] = job], ok |-> TRUE, job |-> q1[i]]

\* A claim that does not count: retries is left as it was.
get_and_update_uncounted(queue, worker_id, maxr) ==
    LET q1 == Quarantine(queue, maxr)
        i  == SelectNext(q1)
    IN  IF i = 0 THEN [queue |-> q1, ok |-> FALSE, job |-> NoJob]
        ELSE LET job == [q1[i] EXCEPT !.status = "running",
                                      !.worker_id = worker_id,
                                      !.claimed_at = "set"]
             IN  [queue |-> [q1 EXCEPT ![i] = job], ok |-> TRUE, job |-> job]

get_and_update_op(queue, worker_id, maxr) ==
    LET q1 == Quarantine(queue, maxr)
        i  == SelectNext(q1)
    IN  IF i = 0 THEN [queue |-> q1, ok |-> FALSE, job |-> NoJob]
        ELSE LET job == [q1[i] EXCEPT !.status = "running",
                                      !.worker_id = worker_id,
                                      !.claimed_at = "set",
                                      !.retries = q1[i].retries + 1]
             IN  [queue |-> [q1 EXCEPT ![i] = job], ok |-> TRUE, job |-> job]

\* An update that finds no record and writes nothing.
update_nothing(queue, job_id, status, output_path) ==
    [queue |-> queue, ok |-> FALSE, job |-> NoJob]

\* An update that records the status and the completion time only.
update_status_only(queue, job_id, status, output_path) ==
    LET i == IndexOfId(queue, job_id)
    IN  IF i = 0 THEN [queue |-> queue, ok |-> FALSE, job |-> NoJob]
        ELSE [queue |-> [queue EXCEPT ![i] =
                            [@ EXCEPT !.status = status, !.completed_at = "set"]],
              ok |-> TRUE, job |-> NoJob]

update_job_op(queue, job_id, status, output_path) ==
    LET i == IndexOfId(queue, job_id)
    IN  IF i = 0 THEN [queue |-> queue, ok |-> FALSE, job |-> NoJob]
        ELSE [queue |-> [queue EXCEPT ![i] =
                            [@ EXCEPT !.status = status,
                                      !.output_path =
                                          IF output_path # NoOutput THEN output_path ELSE @,
                                      !.completed_at = "set"]],
              ok |-> TRUE, job |-> NoJob]

\* A step update that adds the step to a job that does not have it.
update_step_adding(queue, job_id, step, status) ==
    LET i == IndexOfId(queue, job_id)
    IN  IF i # 0
        THEN [queue |-> [queue EXCEPT ![i].steps =
                            [X \in DOMAIN @ \cup {step} |-> IF X = step THEN status ELSE @[X]]],
              ok |-> TRUE, job |-> NoJob]
        ELSE [queue |-> queue, ok |-> FALSE, job |-> NoJob]

update_step_op(queue, job_id, step, status) ==
    LET i == IndexOfId(queue, job_id)
    IN  IF i # 0 /\ step \in DOMAIN queue[i].steps
        THEN [queue |-> [queue EXCEPT ![i].steps[step] = status],
              ok |-> TRUE, job |-> NoJob]
        ELSE [queue |-> queue, ok |-> FALSE, job |-> NoJob]

\* The loop of the resets without its test "if step_name in job.get('steps', {})".
ResetStepsUntested(steps, from_step_index) ==
    [n \in DOMAIN steps \cup {step_order[i] : i \in from_step_index..Len(step_order)} |->
        IF \E i \in from_step_index..Len(step_order) : step_order[i] = n
        THEN "pending" ELSE steps[n]]

\* The loop "for i in range(from_step_index - 1, len(step_order))" of both resets.
ResetSteps(steps, from_step_index) ==
    [n \in DOMAIN steps |->
        IF \E i \in from_step_index..Len(step_order) : step_order[i] = n
        THEN "pending" ELSE steps[n]]

\* The reset without "job['retries'] = 0".
ResetRecordKeepingRetries(job, from_step_index) ==
    [job EXCEPT !.steps = ResetSteps(job.steps, from_step_index),
                !.status = "failed"]

ResetRecord(job, from_step_index) ==
    [job EXCEPT !.steps = ResetSteps(job.steps, from_step_index),
                !.status = "failed",
                !.retries = 0]

ValidStepIndex(from_step_index) ==
    1 <= from_step_index /\ from_step_index <= Len(step_order)

reset_job_progress(queue, job_id, from_step_index) ==
    IF ~ValidStepIndex(from_step_index)
    THEN [queue |-> queue, ok |-> FALSE, job |-> NoJob]
    ELSE LET i == IndexOfId(queue, job_id)
         IN  IF i = 0 THEN [queue |-> queue, ok |-> FALSE, job |-> NoJob]
             ELSE [queue |-> [queue EXCEPT ![i] = ResetRecord(queue[i], from_step_index)],
                   ok |-> TRUE, job |-> NoJob]

force_reset_job_progress(queue, job_id, input_path, from_step_index) ==
    IF ~ValidStepIndex(from_step_index)
    THEN [queue |-> queue, ok |-> FALSE, job |-> NoJob]
    ELSE LET i == IndexOfMatch(queue, job_id, input_path)
         IN  IF i = 0 THEN [queue |-> queue, ok |-> FALSE, job |-> NoJob]
             ELSE [queue |-> [queue EXCEPT ![i] = ResetRecord(queue[i], from_step_index)],
                   ok |-> TRUE, job |-> NoJob]

\* ------------------------------------------------- files of the pipeline
\* The files run_step checks (file_to_check) or _move_final_file moves, per job:
\* the staging directory is named after the job id, the log after the job id too.
FileNames ==
    {"local_source", "log", "p7", "p8", "rpu", "reencoded", "final_with_rpu",
     "local_output", "output"}

StagingFiles == FileNames \ {"log", "output"}

\* file_to_check of each run_step call of transcode().
FileToCheck(job_type, step) ==
    CASE step = "copy_source"   -> "local_source"
      [] step = "get_metadata"  -> "log"
      [] step = "extract_p7"    -> "p7"
      [] step = "convert_p8"    -> "p8"
      [] step = "extract_rpu"   -> "rpu"
      [] step = "reencode_x265" ->
            IF job_type = "dolby_vision" THEN "reencoded" ELSE "local_output"
      [] step = "inject_rpu"    -> "final_with_rpu"
      [] step = "remux_final"   -> "local_output"
      [] OTHER                  -> "output"

\* The calls transcode() makes, in order: the run_step calls of the job type and,
\* for dolby_vision, the stream probe between get_metadata and extract_p7.
ProbeStage == "get_main_video_stream_index"

Plan(job_type) ==
    IF job_type = "dolby_vision"
    THEN <<"copy_source", "get_metadata", ProbeStage, "extract_p7", "convert_p8",
           "extract_rpu", "reencode_x265", "inject_rpu", "remux_final", "move_final">>
    ELSE <<"copy_source", "get_metadata", "reencode_x265", "move_final">>

\* Transcoder.output_path once transcode() has passed get_metadata.
OutputPath(job) ==
    <<job.input_path, IF job.job_type = "dolby_vision" THEN "_DV_P8.mkv" ELSE "_x265.mkv">>

\* run_step trusting a completed checkpoint without looking for its file.
SkipsCompleted(job, present, step) ==
    \/ step \notin DOMAIN job.steps
    \/ job.steps[step] = "completed"

\* The condition under which run_step returns True without calling the function.
SkipsStep(job, present, step) ==
    \/ step \notin DOMAIN job.steps
    \/ (job.steps[step] = "completed" /\ FileToCheck(job.job_type, step) \in present)

\* What transcode() does when run_step returned False for a step: every call site
\* returns False, except the one of remux_final, which only logs and goes on.
AbortsOnFailure(step) == step # "remux_final"

\* ------------------------------------------------------------------ state
VARIABLES
    jobs,     \* the persisted document: queue['jobs'] in file order
    wk,       \* per worker process: its place in worker.main and its Transcoder
    files,    \* per job id: the files of FileNames that exist
    ret,      \* the producer's or operator's call made by this step, and its result
    spent,    \* how much of each bound the run has used
    lim,      \* the bounds of the run: jobs, claims, events
    lock,     \* the process holding the exclusive lock on the queue file
    tx,       \* per process: its _execute_with_lock call in progress
    form      \* what the queue file holds: see DocForms

vars == <<jobs, wk, files, ret, spent, lim, lock, tx, form>>

\* What a step that takes no part in the bounds and the lock leaves alone.
frame == <<lim, lock, tx, form>>

\* The contents the queue file can have: no file, zero bytes, a JSON list of jobs
\* (the legacy form), the dictionary {'jobs': [...]}, or text that does not parse.
\* jobs is the list of jobs it holds ("list", "dict"), empty otherwise.
DocForms == {"absent", "empty", "list", "dict", "malformed"}

NoTx ==
    [phase |-> "idle", op |-> "none", path |-> NoPath, data |-> <<>>, ok |-> FALSE,
     job |-> NoJob, applied |-> 0]

\* A lock call that returns at once, whoever holds the lock.
AcquirableAlways(holder) == TRUE

\* portalocker.lock(f, LOCK_EX) returns once no other process holds the lock.
Acquirable(holder) == holder = NoWorker

\* A whole transaction of _execute_with_lock taken as one step: the lock is free
\* when it starts and free again when it ends.
Free == Acquirable(lock)

\* The lock a holder leaves unreleased.
Kept(holder, w) == holder

\* The lock once the finally clause has run portalocker.unlock(f).
Released(holder, w) == IF holder = w THEN NoWorker ELSE holder

NoRet == [op |-> "none", ok |-> FALSE, id |-> NoId, k |-> 0, path |-> NoPath]

Ret(op, ok, id, k, path) == [op |-> op, ok |-> ok, id |-> id, k |-> k, path |-> path]

IdleWorker ==
    [pc |-> "start", job |-> NoJob, pos |-> 0, success |-> FALSE,
     invoked |-> {}, failed |-> {}, sel_id |-> NoId, sel_path |-> NoPath]

UsedIds == {jobs[i].id : i \in 1..Len(jobs)}

InitBase ==
    /\ jobs = <<>>
    /\ wk = [w \in Workers |-> IdleWorker]
    /\ files = [i \in Ids |-> {}]
    /\ ret = NoRet
    /\ spent = [events |-> 0, claims |-> 0]
    /\ lock = NoWorker
    /\ tx = [w \in Workers |-> NoTx]
    /\ form = "dict"

Init ==
    /\ InitBase
    /\ lim = [jobs |-> MaxJobs, claims |-> MaxClaims, events |-> 0]

\* --------------------------------------------------------------- producer
\* scanner.py: JobQueue.add_job(input_path, job_type).
AddJob(input_path, job_type, new_id, now) ==
    LET r == add_job_op(jobs, input_path, job_type, new_id, now)
    IN  /\ Free
        /\ r.ok => (new_id \notin UsedIds /\ Len(jobs) < lim.jobs)
        /\ jobs' = r.queue
        /\ ret' = Ret("add_job", r.ok, NoId, 0, input_path)
        /\ UNCHANGED <<wk, files, spent, frame>>

\* ----------------------------------------------------------------- worker
\* worker.main, the polling loop: job_queue.claim_next_available_job(worker_id).
Claim(w) ==
    /\ Free
    /\ wk[w].pc \in {"start", "loop"}
    /\ LET r == get_and_update_op(jobs, w, max_retries)
       IN  /\ jobs' = r.queue
           /\ ret' = NoRet
           /\ r.ok => spent.claims < lim.claims
           /\ wk' = [wk EXCEPT ![w] =
                        IF r.ok
                        THEN [IdleWorker EXCEPT !.pc = "construct", !.job = r.job]
                        ELSE [IdleWorker EXCEPT !.pc = "exited"]]
           /\ spent' = [spent EXCEPT !.claims = IF r.ok THEN @ + 1 ELSE @]
    /\ UNCHANGED <<files, frame>>

\* The same call, _execute_with_lock taken step by step (SpecLock):
\* open the file and wait for the exclusive lock,
LockClaim(w) ==
    /\ wk[w].pc \in {"start", "loop"}
    /\ tx[w].phase = "idle"
    /\ Acquirable(lock)
    /\ lock' = w
    /\ tx' = [tx EXCEPT ![w].phase = "locked"]
    /\ ret' = NoRet
    /\ UNCHANGED <<jobs, wk, files, spent, lim, form>>

\* read and parse the document and apply _get_and_update_op to it,
ReadClaim(w) ==
    /\ tx[w].phase = "locked"
    /\ LET r == get_and_update_op(jobs, w, max_retries)
       IN  /\ r.ok => spent.claims < lim.claims
           /\ tx' = [tx EXCEPT ![w] =
                        [NoTx EXCEPT !.phase = "operated", !.op = "claim_next_available_job",
                                     !.data = r.queue, !.ok = r.ok, !.job = r.job,
                                     !.applied = 1]]
    /\ ret' = NoRet
    /\ UNCHANGED <<jobs, wk, files, spent, lim, lock, form>>

\* truncate, write the document back, unlock, and return the result to worker.main.
WriteClaim(w) ==
    /\ tx[w].phase = "operated"
    /\ jobs' = tx[w].data
    /\ lock' = Released(lock, w)
    /\ wk' = [wk EXCEPT ![w] =
                IF tx[w].ok
                THEN [IdleWorker EXCEPT !.pc = "construct", !.job = tx[w].job]
                ELSE [IdleWorker EXCEPT !.pc = "exited"]]
    /\ spent' = [spent EXCEPT !.claims = IF tx[w].ok THEN @ + 1 ELSE @]
    /\ tx' = [tx EXCEPT ![w] = NoTx]
    /\ ret' = NoRet
    /\ UNCHANGED <<files, lim, form>>

\* The worker holds a claim: claim_next_available_job has returned it a job and it
\* has not yet recorded the outcome of the run.
Active(w) == wk[w].pc \in {"construct", "stage", "report"}

\* Transcoder.__init__: makes the staging directory and opens the job's log.
\* It reads config.STAGING_DIR, which config.py as shipped does not define: with
\* that file the constructor raises (Fault); this step is the constructor under a
\* configuration that defines it.
Construct(w) ==
    /\ wk[w].pc = "construct"
    /\ wk' = [wk EXCEPT ![w].pc = "stage", ![w].pos = 1]
    /\ files' = [files EXCEPT ![wk[w].job.id] = @ \cup {"log"}]
    /\ ret' = NoRet
    /\ UNCHANGED <<jobs, spent, frame>>

Stage(w) == Plan(wk[w].job.job_type)[wk[w].pos]

\* The worker after the call at position pos returned True: the next call, or
\* "return True" after the last one.
Advance(rec) ==
    IF rec.pos = Len(Plan(rec.job.job_type))
    THEN [rec EXCEPT !.pc = "report", !.success = TRUE]
    ELSE [rec EXCEPT !.pc = "stage", !.pos = rec.pos + 1]

\* "return False" in transcode().
Abort(rec) == [rec EXCEPT !.pc = "report", !.success = FALSE]

\* run_step returning True at once: the step is not re-run.
SkipStep(w) ==
    /\ wk[w].pc = "stage"
    /\ Stage(w) # ProbeStage
    /\ SkipsStep(wk[w].job, files[wk[w].job.id], Stage(w))
    /\ wk' = [wk EXCEPT ![w] = Advance(wk[w])]
    /\ ret' = NoRet
    /\ UNCHANGED <<jobs, files, spent, frame>>

\* The files after the step's function ended: on success its file exists
\* (_move_final_file has moved local_output to output); a function that failed
\* may have left its file behind (left).
FilesAfter(present, job_type, step, success, left) ==
    IF success
    THEN IF step = "move_final"
         THEN (present \ {"local_output"}) \cup {"output"}
         ELSE present \cup {FileToCheck(job_type, step)}
    ELSE IF left THEN present \cup {FileToCheck(job_type, step)} ELSE present

\* run_step calling the step's function, which returns (outcome "ok" or "fail")
\* or raises ("raise"); run_step records the step's status in one transaction and
\* transcode() goes on or returns False.  The external tool runs between the
\* check that precedes it and this transaction; the step is taken where the
\* transaction is.
RunStep(w, outcome, left) ==
    /\ Free
    /\ wk[w].pc = "stage"
    /\ Stage(w) # ProbeStage
    /\ ~SkipsStep(wk[w].job, files[wk[w].job.id], Stage(w))
    /\ outcome = "ok" /\ Stage(w) = "move_final" => "local_output" \in files[wk[w].job.id]
    /\ outcome = "ok" => ~left
    /\ left => spent.events < lim.events
    /\ LET step == Stage(w)
           success == (outcome = "ok")
           r == update_step_op(jobs, wk[w].job.id, step,
                               IF success THEN "completed" ELSE "failed")
       IN  /\ jobs' = r.queue
           /\ ret' = NoRet
           /\ files' = [files EXCEPT ![wk[w].job.id] =
                           FilesAfter(@, wk[w].job.job_type, step, success, left)]
           /\ wk' = [wk EXCEPT ![w] =
                        LET called == [wk[w] EXCEPT !.invoked = @ \cup {step}]
                            fell   == [called EXCEPT !.failed = @ \cup {step}]
                        IN  IF success THEN Advance(called)
                            ELSE IF AbortsOnFailure(step) THEN Abort(fell)
                            ELSE Advance(fell)]
           /\ spent' = [spent EXCEPT !.events = IF left THEN @ + 1 ELSE @]
    /\ UNCHANGED frame

\* The same call taken in two steps (SpecExec).  ExecStep: run_step found the
\* step neither completed nor skippable and calls its function, which starts
\* the external tool;
ExecStep(w) ==
    /\ wk[w].pc = "stage"
    /\ Stage(w) # ProbeStage
    /\ ~SkipsStep(wk[w].job, files[wk[w].job.id], Stage(w))
    /\ wk' = [wk EXCEPT ![w].pc = "exec", ![w].invoked = @ \cup {Stage(w)}]
    /\ ret' = NoRet
    /\ UNCHANGED <<jobs, files, spent, frame>>

\* FinishStep: the function returned or raised, run_step records the step's
\* status through update_job_step_status and transcode() goes on or returns False.
FinishStep(w, outcome) ==
    /\ Free
    /\ wk[w].pc = "exec"
    /\ outcome = "ok" /\ Stage(w) = "move_final" => "local_output" \in files[wk[w].job.id]
    /\ LET step == Stage(w)
           success == (outcome = "ok")
           r == update_step_op(jobs, wk[w].job.id, step,
                               IF success THEN "completed" ELSE "failed")
           staged == [wk[w] EXCEPT !.pc = "stage"]
           fell   == [staged EXCEPT !.failed = @ \cup {step}]
       IN  /\ jobs' = r.queue
           /\ files' = [files EXCEPT ![wk[w].job.id] =
                           FilesAfter(@, wk[w].job.job_type, step, success, FALSE)]
           /\ wk' = [wk EXCEPT ![w] =
                        IF success THEN Advance(staged)
                        ELSE IF AbortsOnFailure(step) THEN Abort(fell)
                        ELSE Advance(fell)]
    /\ ret' = NoRet
    /\ UNCHANGED <<spent, frame>>

\* _get_main_video_stream_index: a stream index, or None and transcode() returns False.
Probe(w, found) ==
    /\ wk[w].pc = "stage"
    /\ Stage(w) = ProbeStage
    /\ wk' = [wk EXCEPT ![w] = IF found THEN Advance(wk[w]) ELSE Abort(wk[w])]
    /\ ret' = NoRet
    /\ UNCHANGED <<jobs, files, spent, frame>>

\* worker.main after transcode() returned: update_job_status, then cleanup()
\* (shutil.rmtree of the staging directory) when the run succeeded.
Report(w) ==
    /\ Free
    /\ wk[w].pc = "report"
    /\ LET r == IF wk[w].success
                THEN update_job_op(jobs, wk[w].job.id, "done", OutputPath(wk[w].job))
                ELSE update_job_op(jobs, wk[w].job.id, "failed", NoOutput)
       IN  /\ jobs' = r.queue
           /\ ret' = NoRet
    /\ files' = IF wk[w].success
                THEN [files EXCEPT ![wk[w].job.id] = @ \ StagingFiles]
                ELSE files
    /\ wk' = [wk EXCEPT ![w] = [IdleWorker EXCEPT !.pc = "loop"]]
    /\ UNCHANGED <<spent, frame>>

\* The step whose function is running when the worker is at a step it does not skip.
Running(w) ==
    /\ wk[w].pc = "stage"
    /\ Stage(w) # ProbeStage
    /\ ~SkipsStep(wk[w].job, files[wk[w].job.id], Stage(w))

\* An exception or interrupt that reaches "except BaseException" of worker.main
\* (Transcoder.__init__ raising, the input file missing, KeyboardInterrupt): the
\* handler marks the job failed and re-raises, which ends the process.  An
\* interrupted step may leave its file behind (left).
Fault(w, left) ==
    /\ Free
    /\ wk[w].pc \in {"construct", "stage"}
    /\ spent.events < lim.events
    /\ left => Running(w)
    /\ LET r == update_job_op(jobs, wk[w].job.id, "failed", NoOutput)
       IN  /\ jobs' = r.queue
           /\ ret' = NoRet
    /\ files' = IF left
                THEN [files EXCEPT ![wk[w].job.id] =
                        @ \cup {FileToCheck(wk[w].job.job_type, Stage(w))}]
                ELSE files
    /\ wk' = [wk EXCEPT ![w] = [IdleWorker EXCEPT !.pc = "dead"]]
    /\ spent' = [spent EXCEPT !.events = @ + 1]
    /\ UNCHANGED frame

\* The worker process is killed (or its machine stops): nothing is recorded.
Kill(w, left) ==
    /\ wk[w].pc \in {"construct", "stage", "report"}
    /\ spent.events < lim.events
    /\ left => Running(w)
    /\ files' = IF left
                THEN [files EXCEPT ![wk[w].job.id] =
                        @ \cup {FileToCheck(wk[w].job.job_type, Stage(w))}]
                ELSE files
    /\ wk' = [wk EXCEPT ![w] = [IdleWorker EXCEPT !.pc = "dead"]]
    /\ spent' = [spent EXCEPT !.events = @ + 1]
    /\ ret' = NoRet
    /\ UNCHANGED <<jobs, frame>>

\* ------------------------------------------------- any client of the queue
\* The values a caller passes as status to update_job_step_status.
StepStatuses == {"pending", "completed", "failed"}

\* The step names a caller passes, by position: those of step_order, and at 0 a
\* name that no job has.
StepArg(k) == IF k = 0 THEN "no_such_step" ELSE step_order[k]

\* JobQueue.update_job_step_status(job_id, step, status) called on the store.
UpdateStep(job_id, k, status) ==
    /\ Free
    /\ spent.events < lim.events
    /\ LET r == update_step_op(jobs, job_id, StepArg(k), status)
       IN  /\ jobs' = r.queue
           /\ ret' = Ret("update_job_step_status", r.ok, job_id, k, NoPath)
    /\ spent' = [spent EXCEPT !.events = @ + 1]
    /\ UNCHANGED <<wk, files, frame>>

\* ------------------------------------------------ worker, --force-rerun
StepIndexArgs == 0..(Len(step_order) + 1)

\* worker.main with --force-rerun k and --job-id and/or --input-path: the forced
\* reset; the process exits when it reports no job.
ForceStart(w, job_id, input_path, k) ==
    /\ Free
    /\ wk[w].pc = "start"
    /\ spent.events < lim.events
    /\ k # 0
    /\ job_id # NoId \/ input_path # NoPath
    /\ LET r == force_reset_job_progress(jobs, job_id, input_path, k)
       IN  /\ jobs' = r.queue
           /\ ret' = NoRet
           /\ wk' = [wk EXCEPT ![w] =
                        IF r.ok
                        THEN [IdleWorker EXCEPT !.pc = "force_find",
                                                !.sel_id = job_id, !.sel_path = input_path]
                        ELSE [IdleWorker EXCEPT !.pc = "exited"]]
    /\ spent' = [spent EXCEPT !.events = @ + 1]
    /\ UNCHANGED <<files, frame>>

\* _execute_with_lock(_find_job): the record as stored now; the worker then sets
\* worker_id and claimed_at on its own copy.
ForceFind(w) ==
    /\ Free
    /\ wk[w].pc = "force_find"
    /\ LET i == IndexOfMatch(jobs, wk[w].sel_id, wk[w].sel_path)
       IN  /\ wk' = [wk EXCEPT ![w] =
                        IF i = 0 THEN [IdleWorker EXCEPT !.pc = "exited"]
                        ELSE [@ EXCEPT !.pc = "force_update",
                                       !.job = [jobs[i] EXCEPT !.worker_id = w,
                                                               !.claimed_at = "set"]]]
           /\ ret' = NoRet
    /\ UNCHANGED <<jobs, files, spent, frame>>

\* job.update(target_job): every key of the worker's copy overwrites the stored
\* record; a key the copy lacks (completed_at, when it was unset) is kept.
UpdateRecord(job, target) ==
    [target EXCEPT !.completed_at =
        IF target.completed_at = "none" THEN job.completed_at ELSE @]

\* _update_job without its test "job['id'] == target_job['id']": the first record
\* of the file takes the copy.
update_first_from_copy(queue, target) ==
    IF queue = <<>> THEN [queue |-> queue, ok |-> FALSE, job |-> NoJob]
    ELSE [queue |-> [queue EXCEPT ![1] = UpdateRecord(queue[1], target)],
          ok |-> TRUE, job |-> NoJob]

update_job_from_copy_op(queue, target) ==
    LET i == IndexOfId(queue, target.id)
    IN  IF i = 0 THEN [queue |-> queue, ok |-> FALSE, job |-> NoJob]
        ELSE [queue |-> [queue EXCEPT ![i] = UpdateRecord(queue[i], target)],
              ok |-> TRUE, job |-> NoJob]

\* _execute_with_lock(_update_job).
ForceUpdate(w) ==
    /\ Free
    /\ wk[w].pc = "force_update"
    /\ LET r == update_job_from_copy_op(jobs, wk[w].job)
       IN  /\ jobs' = r.queue
           /\ ret' = NoRet
    /\ wk' = [wk EXCEPT ![w].pc = "force_run"]
    /\ UNCHANGED <<files, spent, frame>>

\* Transcoder(target_job, worker_id) and transcoder.run(): the class has no
\* method run, the AttributeError is caught and logged, and the process exits.
ForceRun(w) ==
    /\ wk[w].pc = "force_run"
    /\ files' = [files EXCEPT ![wk[w].job.id] = @ \cup {"log"}]
    /\ wk' = [wk EXCEPT ![w] = [IdleWorker EXCEPT !.pc = "exited"]]
    /\ ret' = NoRet
    /\ UNCHANGED <<jobs, spent, frame>>

\* --------------------------------------------------------------- operator
AdminReset(job_id, k) ==
    /\ Free
    /\ spent.events < lim.events
    /\ LET r == reset_job_progress(jobs, job_id, k)
       IN  /\ jobs' = r.queue
           /\ ret' = Ret("reset_job_progress", r.ok, job_id, k, NoPath)
    /\ spent' = [spent EXCEPT !.events = @ + 1]
    /\ UNCHANGED <<wk, files, frame>>

AdminForceReset(job_id, input_path, k) ==
    /\ Free
    /\ spent.events < lim.events
    /\ LET r == force_reset_job_progress(jobs, job_id, input_path, k)
           i == IndexOfMatch(jobs, job_id, input_path)
       IN  /\ jobs' = r.queue
           /\ ret' = Ret("force_reset_job_progress", r.ok,
                         IF i = 0 THEN NoId ELSE jobs[i].id, k, input_path)
    /\ spent' = [spent EXCEPT !.events = @ + 1]
    /\ UNCHANGED <<wk, files, frame>>

\* ------------------------------------------------------------ environment
\* A file of a job disappears (deleted, or the job resumes on another machine,
\* whose staging directory does not hold it).
LoseFile(id, f) ==
    /\ spent.events < lim.events
    /\ f \in files[id]
    /\ files' = [files EXCEPT ![id] = @ \ {f}]
    /\ spent' = [spent EXCEPT !.events = @ + 1]
    /\ ret' = NoRet
    /\ UNCHANGED <<jobs, wk, frame>>

\* ------------------------------------------- the store, call by call
\* JobQueue.__init__ and _execute_with_lock taken step by step, for a process w
\* that constructs a JobQueue and then calls add_job or claim_next_available_job.
\* The process is at tx[w].phase: "new" before the constructor, "absent" when the
\* constructor found no file, "creating" once it opened the file for writing,
\* "idle" between calls, "operated" once the operation was applied under the lock,
\* "recovering" in the except branch, "resetting" once that opened the file.

\* A dump that leaves the file as it found it.
LeftAsFound(doc_form, queue) == doc_form

\* What the file holds once json.dump({'jobs': []}) is flushed at offset 0 of a
\* file this process truncated when it opened it: the empty dictionary, unless
\* another process has since written a longer document, whose tail stays.
Overlay(doc_form, queue) ==
    IF doc_form = "dict" /\ queue # <<>> THEN "malformed" ELSE "dict"

\* JobQueue.__init__: os.path.exists(self.queue_file).
InitExists(w) ==
    /\ tx[w].phase = "new"
    /\ tx' = [tx EXCEPT ![w].phase = IF form = "absent" THEN "absent" ELSE "idle"]
    /\ ret' = NoRet
    /\ UNCHANGED <<jobs, wk, files, spent, lim, lock, form>>

\* JobQueue.__init__: open(self.queue_file, 'w') creates or truncates the file.
InitOpen(w) ==
    /\ tx[w].phase = "absent"
    /\ tx' = [tx EXCEPT ![w].phase = "creating"]
    /\ form' = "empty"
    /\ jobs' = <<>>
    /\ ret' = NoRet
    /\ UNCHANGED <<wk, files, spent, lim, lock>>

\* JobQueue.__init__: json.dump({'jobs': []}, f) and the close of the file.
InitDump(w) ==
    /\ tx[w].phase = "creating"
    /\ tx' = [tx EXCEPT ![w].phase = "idle"]
    /\ form' = Overlay(form, jobs)
    /\ jobs' = <<>>
    /\ ret' = NoRet
    /\ UNCHANGED <<wk, files, spent, lim, lock>>

\* The operations a process of the store specification calls.
StoreOps == {"add_job", "claim_next_available_job"}

ApplyOp(op, queue, w, input_path, new_id, now) ==
    IF op = "add_job"
    THEN add_job_op(queue, input_path, "standard", new_id, now)
    ELSE get_and_update_op(queue, w, max_retries)

\* _execute_with_lock up to the operation: open, lock, read, parse, the legacy
\* conversion, operation(queue_data).  A document that does not parse raises
\* JSONDecodeError: the finally clause unlocks and the except branch is entered.
TxLoad(w, op, input_path, new_id, now) ==
    /\ tx[w].phase = "idle"
    /\ wk[w].pc = "start"
    /\ form # "absent"
    /\ Acquirable(lock)
    /\ op = "claim_next_available_job" => (input_path = NoPath /\ new_id = NoId)
    /\ op = "add_job" => input_path # NoPath
    /\ IF form = "malformed"
       THEN /\ tx' = [tx EXCEPT ![w] =
                        [NoTx EXCEPT !.phase = "recovering", !.op = op, !.path = input_path]]
            /\ UNCHANGED lock
       ELSE LET r == ApplyOp(op, jobs, w, input_path, new_id, now)
            IN  /\ (op = "add_job" /\ r.ok) =>
                      (new_id \in Ids \ UsedIds /\ Len(jobs) < lim.jobs)
                /\ tx' = [tx EXCEPT ![w] =
                            [NoTx EXCEPT !.phase = "operated", !.op = op,
                                         !.path = input_path, !.data = r.queue,
                                         !.ok = r.ok, !.job = r.job, !.applied = 1]]
                /\ lock' = w
    /\ ret' = NoRet
    /\ UNCHANGED <<jobs, wk, files, spent, lim, form>>

\* _execute_with_lock after the operation: seek(0), truncate, json.dump, return
\* result, unlock.
TxWrite(w) ==
    /\ tx[w].phase = "operated"
    /\ wk[w].pc = "start"
    /\ jobs' = tx[w].data
    /\ form' = "dict"
    /\ lock' = Released(lock, w)
    /\ ret' = Ret(tx[w].op, tx[w].ok, tx[w].job.id, tx[w].applied, tx[w].path)
    /\ tx' = [tx EXCEPT ![w] = NoTx]
    /\ UNCHANGED <<wk, files, spent, lim>>

\* The except branch: open(self.queue_file, 'w') truncates the file.
RecoverOpen(w) ==
    /\ tx[w].phase = "recovering"
    /\ tx' = [tx EXCEPT ![w].phase = "resetting"]
    /\ form' = "empty"
    /\ jobs' = <<>>
    /\ ret' = NoRet
    /\ UNCHANGED <<wk, files, spent, lim, lock>>

\* The except branch: json.dump({'jobs': []}, f), the close, and "return None".
RecoverDump(w) ==
    /\ tx[w].phase = "resetting"
    /\ form' = Overlay(form, jobs)
    /\ jobs' = <<>>
    /\ ret' = Ret(tx[w].op, FALSE, NoId, tx[w].applied, tx[w].path)
    /\ tx' = [tx EXCEPT ![w] = NoTx]
    /\ UNCHANGED <<wk, files, spent, lim, lock>>

\* The stages of _execute_with_lock at which the file system can raise IOError
\* before the operation is applied.
LoadStages == {"open", "read"}

\* _execute_with_lock when open(self.queue_file, 'r+') or f.read() raises IOError
\* (OSError: too many open files, an I/O error of the device, ...): the finally
\* clause releases the lock if it was taken, and "except (IOError,
\* json.JSONDecodeError)" is entered without the operation having been applied.
TxLoadError(w, op, input_path, stage) ==
    /\ tx[w].phase = "idle"
    /\ wk[w].pc = "start"
    /\ form # "absent"
    /\ stage = "read" => Acquirable(lock)
    /\ spent.events < lim.events
    /\ op = "claim_next_available_job" => input_path = NoPath
    /\ op = "add_job" => input_path # NoPath
    /\ tx' = [tx EXCEPT ![w] =
                [NoTx EXCEPT !.phase = "recovering", !.op = op, !.path = input_path]]
    /\ spent' = [spent EXCEPT !.events = @ + 1]
    /\ ret' = NoRet
    /\ UNCHANGED <<jobs, wk, files, lim, lock, form>>

\* _execute_with_lock when json.dump raises IOError (no space left on the
\* device, ...) after f.truncate(): the file is left empty, the finally clause
\* releases the lock and the except branch is entered.
TxWriteError(w) ==
    /\ tx[w].phase = "operated"
    /\ wk[w].pc = "start"
    /\ spent.events < lim.events
    /\ jobs' = <<>>
    /\ form' = "empty"
    /\ lock' = Released(lock, w)
    /\ tx' = [tx EXCEPT ![w].phase = "recovering"]
    /\ spent' = [spent EXCEPT !.events = @ + 1]
    /\ ret' = NoRet
    /\ UNCHANGED <<wk, files, lim>>

\* _execute_with_lock taken in three steps (SpecRelease).  TxOpen: the call
\* opens the file and asks for the exclusive lock; portalocker.lock blocks until
\* the lock is free.
TxOpen(w, op, input_path) ==
    /\ tx[w].phase = "idle"
    /\ wk[w].pc = "start"
    /\ form # "absent"
    /\ spent.claims < lim.claims
    /\ op = "claim_next_available_job" => input_path = NoPath
    /\ op = "add_job" => input_path # NoPath
    /\ tx' = [tx EXCEPT ![w] =
                [NoTx EXCEPT !.phase = "waiting", !.op = op, !.path = input_path]]
    /\ spent' = [spent EXCEPT !.claims = @ + 1]
    /\ ret' = NoRet
    /\ UNCHANGED <<jobs, wk, files, lim, lock, form>>

\* TxGrant: the lock is granted; read, parse, the legacy conversion and
\* operation(queue_data).  A document that does not parse raises
\* JSONDecodeError: the finally clause unlocks and the except branch is entered.
TxGrant(w, new_id, now) ==
    /\ tx[w].phase = "waiting"
    /\ Acquirable(lock)
    /\ tx[w].op = "claim_next_available_job" => new_id = NoId
    /\ IF form = "malformed"
       THEN /\ new_id = NoId
            /\ tx' = [tx EXCEPT ![w].phase = "recovering"]
            /\ lock' = Released(w, w)
       ELSE LET r == ApplyOp(tx[w].op, jobs, w, tx[w].path, new_id, now)
            IN  /\ (tx[w].op = "add_job" /\ r.ok) =>
                      (new_id \in Ids \ UsedIds /\ Len(jobs) < lim.jobs)
                /\ (tx[w].op = "add_job" /\ ~r.ok) => new_id = NoId
                /\ tx' = [tx EXCEPT ![w] =
                            [@ EXCEPT !.phase = "operated", !.data = r.queue,
                                      !.ok = r.ok, !.job = r.job, !.applied = 1]]
                /\ lock' = w
    /\ ret' = NoRet
    /\ UNCHANGED <<jobs, wk, files, spent, lim, form>>

\* An exception that is neither IOError nor JSONDecodeError (KeyboardInterrupt,
\* or one raised by the operation) while the lock is held and before the file is
\* rewritten: the finally clause unlocks, the exception leaves
\* _execute_with_lock and ends the process.
TxAbort(w) ==
    /\ tx[w].phase = "operated"
    /\ wk[w].pc = "start"
    /\ spent.events < lim.events
    /\ lock' = Released(lock, w)
    /\ tx' = [tx EXCEPT ![w] = NoTx]
    /\ wk' = [wk EXCEPT ![w] = [IdleWorker EXCEPT !.pc = "dead"]]
    /\ spent' = [spent EXCEPT !.events = @ + 1]
    /\ ret' = NoRet
    /\ UNCHANGED <<jobs, files, lim, form>>

\* -------------------------------------------------------- specifications
\* Spec: the polling system.  A producer enqueues standard files (and is refused
\* an unknown type), both workers poll, claim and run the pipeline; no operator
\* and no trouble from the environment.
Next ==
    \/ \E p \in Paths, t \in {"standard", "other"}, i \in Ids, now \in Times :
          AddJob(p, t, i, now)
    \/ \E w \in Workers : Claim(w)
    \/ \E w \in Workers : Construct(w)
    \/ \E w \in Workers : SkipStep(w)
    \/ \E w \in Workers, o \in {"ok", "fail", "raise"} : RunStep(w, o, FALSE)
    \/ \E w \in Workers : Report(w)

Spec == Init /\ [][Next]_vars

\* SpecLock: the polling system with every claim_next_available_job call taken
\* step by step through _execute_with_lock, so that the calls of the two workers
\* interleave in every way the lock allows.
InitLock ==
    /\ InitBase
    /\ lim = [jobs |-> MaxJobs, claims |-> FewClaims, events |-> 0]

NextLock ==
    \/ \E p \in Paths, t \in {"standard", "other"}, i \in Ids, now \in Times :
          AddJob(p, t, i, now)
    \/ \E w \in Workers : LockClaim(w)
    \/ \E w \in Workers : ReadClaim(w)
    \/ \E w \in Workers : WriteClaim(w)
    \/ \E w \in Workers : Construct(w)
    \/ \E w \in Workers : SkipStep(w)
    \/ \E w \in Workers, o \in {"ok", "fail", "raise"} : RunStep(w, o, FALSE)
    \/ \E w \in Workers : Report(w)

SpecLock == InitLock /\ [][NextLock]_vars

\* SpecRetry: the polling system with one job and enough claims for the job to
\* run through all its retries.
InitRetry ==
    /\ InitBase
    /\ lim = [jobs |-> SoloJobs, claims |-> RetryClaims, events |-> 0]

NextRetry ==
    \/ \E p \in Paths, t \in {"standard", "other"}, i \in 1..SoloJobs, now \in Times :
          AddJob(p, t, i, now)
    \/ \E w \in Workers : Claim(w)
    \/ \E w \in Workers : Construct(w)
    \/ \E w \in Workers : SkipStep(w)
    \/ \E w \in Workers, o \in {"ok", "fail", "raise"} : RunStep(w, o, FALSE)
    \/ \E w \in Workers : Report(w)

SpecRetry == InitRetry /\ [][NextRetry]_vars

\* SpecPipeline: one worker and one job of either type, with up to MaxEvents
\* events of the environment: a file lost, a failed step leaving its file, an
\* exception or interrupt in the worker, the worker killed.
InitPipeline ==
    /\ InitBase
    /\ lim = [jobs |-> SoloJobs, claims |-> MaxClaims, events |-> MaxEvents]

NextPipeline ==
    \/ \E p \in Paths, t \in JobTypeArgs, i \in 1..SoloJobs, now \in Times :
          AddJob(p, t, i, now)
    \/ Claim("w1")
    \/ Construct("w1")
    \/ SkipStep("w1")
    \/ \E o \in {"ok", "fail", "raise"}, left \in BOOLEAN : RunStep("w1", o, left)
    \/ \E found \in BOOLEAN : Probe("w1", found)
    \/ Report("w1")
    \/ \E left \in BOOLEAN : Fault("w1", left)
    \/ \E left \in BOOLEAN : Kill("w1", left)
    \/ \E i \in Ids, f \in FileNames : LoseFile(i, f)

SpecPipeline == InitPipeline /\ [][NextPipeline]_vars

\* SpecAdmin: one standard job, both workers polling, and an operator who resets
\* jobs while they poll and run, up to MaxEvents times.
InitAdmin ==
    /\ InitBase
    /\ lim = [jobs |-> SoloJobs, claims |-> FewClaims, events |-> MaxEvents]

NextAdmin ==
    \/ \E p \in Paths, t \in {"standard", "other"}, i \in 1..SoloJobs, now \in Times :
          AddJob(p, t, i, now)
    \/ \E w \in Workers : Claim(w)
    \/ \E w \in Workers : Construct(w)
    \/ \E w \in Workers : SkipStep(w)
    \/ \E w \in Workers, o \in {"ok", "fail", "raise"} : RunStep(w, o, FALSE)
    \/ \E w \in Workers : Report(w)
    \/ \E i \in Ids, k \in StepIndexArgs : AdminReset(i, k)
    \/ \E p \in Paths, k \in StepIndexArgs : AdminForceReset(NoId, p, k)

SpecAdmin == InitAdmin /\ [][NextAdmin]_vars

\* SpecRequeue: one standard job whose input is broken (every step function
\* fails), both workers polling, an operator who resets up to MaxEvents times, and
\* enough claims for the job to be quarantined, reset and quarantined again.
InitRequeue ==
    /\ InitBase
    /\ lim = [jobs |-> SoloJobs, claims |-> RequeueClaims, events |-> MaxEvents]

NextRequeue ==
    \/ \E p \in Paths, t \in {"standard", "other"}, i \in 1..SoloJobs, now \in Times :
          AddJob(p, t, i, now)
    \/ \E w \in Workers : Claim(w)
    \/ \E w \in Workers : Construct(w)
    \/ \E w \in Workers, o \in {"fail", "raise"} : RunStep(w, o, FALSE)
    \/ \E w \in Workers : Report(w)
    \/ \E i \in Ids, k \in StepIndexArgs : AdminReset(i, k)
    \/ \E p \in Paths, k \in StepIndexArgs : AdminForceReset(NoId, p, k)

SpecRequeue == InitRequeue /\ [][NextRequeue]_vars

\* SpecFault: one job of either type, both workers polling, and up to MaxEvents
\* exceptions or interrupts that reach the handler of worker.main.
InitFault ==
    /\ InitBase
    /\ lim = [jobs |-> SoloJobs, claims |-> FewClaims, events |-> MaxEvents]

NextFault ==
    \/ \E p \in Paths, t \in JobTypeArgs, i \in 1..SoloJobs, now \in Times :
          AddJob(p, t, i, now)
    \/ \E w \in Workers : Claim(w)
    \/ \E w \in Workers : Construct(w)
    \/ \E w \in Workers : SkipStep(w)
    \/ \E w \in Workers, o \in {"ok", "fail", "raise"} : RunStep(w, o, FALSE)
    \/ \E w \in Workers, found \in BOOLEAN : Probe(w, found)
    \/ \E w \in Workers : Report(w)
    \/ \E w \in Workers, left \in BOOLEAN : Fault(w, left)

SpecFault == InitFault /\ [][NextFault]_vars

\* SpecCrash: one standard job, both workers polling, and up to CrashEvents
\* events, each a worker process killed or an operator's reset of the job.
InitCrash ==
    /\ InitBase
    /\ lim = [jobs |-> SoloJobs, claims |-> FewClaims, events |-> CrashEvents]

NextCrash ==
    \/ \E p \in Paths, i \in 1..SoloJobs, now \in Times : AddJob(p, "standard", i, now)
    \/ \E w \in Workers : Claim(w)
    \/ \E w \in Workers : Construct(w)
    \/ \E w \in Workers : SkipStep(w)
    \/ \E w \in Workers, o \in {"ok", "fail", "raise"} : RunStep(w, o, FALSE)
    \/ \E w \in Workers : Report(w)
    \/ \E w \in Workers : Kill(w, FALSE)
    \/ \E i \in 1..SoloJobs, k \in 1..2 : AdminReset(i, k)

SpecCrash == InitCrash /\ [][NextCrash]_vars

\* SpecOps: one job of either type and every operation that writes its record:
\* worker w1 polling and running the pipeline once, worker w2 started with
\* --force-rerun (by id or by input path), and an operator's resets; the forced
\* and the operator's resets are MaxEvents in all, from the step indices ResetArgs.
ResetArgs == {1, 3, 9}

InitOps ==
    /\ InitBase
    /\ lim = [jobs |-> SoloJobs, claims |-> OneClaim, events |-> MaxEvents]

NextOps ==
    \/ \E p \in Paths, t \in JobTypeArgs, i \in 1..SoloJobs : AddJob(p, t, i, 1)
    \/ Claim("w1")
    \/ Construct("w1")
    \/ \E o \in {"ok", "fail"} : RunStep("w1", o, FALSE)
    \/ \E found \in BOOLEAN : Probe("w1", found)
    \/ Report("w1")
    \/ \E i \in 1..SoloJobs, k \in ResetArgs : ForceStart("w2", i, NoPath, k)
    \/ \E p \in Paths, k \in ResetArgs : ForceStart("w2", NoId, p, k)
    \/ ForceFind("w2")
    \/ ForceUpdate("w2")
    \/ ForceRun("w2")
    \/ \E i \in 1..SoloJobs, k \in ResetArgs : AdminReset(i, k)
    \/ \E p \in Paths, k \in ResetArgs : AdminForceReset(NoId, p, k)

SpecOps == InitOps /\ [][NextOps]_vars

\* SpecIdent: SpecOps with up to MaxJobs standard jobs.
InitIdent ==
    /\ InitBase
    /\ lim = [jobs |-> MaxJobs, claims |-> OneClaim, events |-> MaxEvents]

NextIdent ==
    \/ \E p \in Paths, t \in {"standard", "other"}, i \in Ids : AddJob(p, t, i, 1)
    \/ Claim("w1")
    \/ Construct("w1")
    \/ \E o \in {"ok", "fail"} : RunStep("w1", o, FALSE)
    \/ Report("w1")
    \/ \E i \in Ids, k \in ResetArgs : ForceStart("w2", i, NoPath, k)
    \/ \E p \in Paths, k \in ResetArgs : ForceStart("w2", NoId, p, k)
    \/ ForceFind("w2")
    \/ ForceUpdate("w2")
    \/ ForceRun("w2")
    \/ \E i \in Ids, k \in ResetArgs : AdminReset(i, k)
    \/ \E p \in Paths, k \in ResetArgs : AdminForceReset(NoId, p, k)

SpecIdent == InitIdent /\ [][NextIdent]_vars

\* SpecBroken: up to MaxJobs standard jobs whose inputs are broken (every step
\* function fails), both workers polling, and enough claims for every job to
\* be quarantined.
InitBroken ==
    /\ InitBase
    /\ lim = [jobs |-> MaxJobs, claims |-> ManyClaims, events |-> 0]

NextBroken ==
    \/ \E p \in Paths, t \in {"standard", "other"}, i \in Ids, now \in Times :
          AddJob(p, t, i, now)
    \/ \E w \in Workers : Claim(w)
    \/ \E w \in Workers : Construct(w)
    \/ \E w \in Workers, o \in {"fail", "raise"} : RunStep(w, o, FALSE)
    \/ \E w \in Workers : Report(w)

SpecBroken == InitBroken /\ [][NextBroken]_vars

\* SpecResume: one standard job, both workers polling, and up to CrashEvents
\* events of the environment: a file lost, an exception or interrupt in a worker,
\* a worker killed, the interrupted step leaving its file behind or not.
InitResume ==
    /\ InitBase
    /\ lim = [jobs |-> SoloJobs, claims |-> MaxClaims, events |-> CrashEvents]

NextResume ==
    \/ \E p \in Paths, i \in 1..SoloJobs : AddJob(p, "standard", i, 1)
    \/ \E w \in Workers : Claim(w)
    \/ \E w \in Workers : Construct(w)
    \/ \E w \in Workers : SkipStep(w)
    \/ \E w \in Workers, o \in {"ok", "fail"} : RunStep(w, o, FALSE)
    \/ \E w \in Workers : Report(w)
    \/ \E w \in Workers, left \in BOOLEAN : Fault(w, left)
    \/ \E w \in Workers, left \in BOOLEAN : Kill(w, left)
    \/ \E i \in 1..SoloJobs, f \in FileNames : LoseFile(i, f)

SpecResume == InitResume /\ [][NextResume]_vars

\* SpecDrain: one standard job, enqueued while some worker is still polling,
\* and both workers polling until claim_next_available_job returns None; no
\* operator and no trouble from the environment.  RetryClaims is more than
\* SoloJobs * max_retries, so the bound on claims never stops a worker.
\* Each worker process runs on its own and each call of a step's function
\* returns, so a worker that can take a step takes it (weak fairness).
InitDrain ==
    /\ InitBase
    /\ lim = [jobs |-> SoloJobs, claims |-> RetryClaims, events |-> 0]

Polling(w) == wk[w].pc # "exited"

WorkerStep(w) ==
    \/ Claim(w)
    \/ Construct(w)
    \/ SkipStep(w)
    \/ \E o \in {"ok", "fail"} : RunStep(w, o, FALSE)
    \/ Report(w)

NextDrain ==
    \/ \E p \in Paths, i \in 1..SoloJobs :
          (\E w \in Workers : Polling(w)) /\ AddJob(p, "standard", i, 1)
    \/ \E w \in Workers : WorkerStep(w)

SpecDrain ==
    InitDrain /\ [][NextDrain]_vars /\ \A w \in Workers : WF_vars(WorkerStep(w))

\* SpecForceRetry: one standard job whose input is broken (every step function
\* fails), worker w1 polling with enough claims for the job to be quarantined
\* twice, and worker w2 started once with --force-rerun and --job-id.
InitForceRetry ==
    /\ InitBase
    /\ lim = [jobs |-> SoloJobs, claims |-> ManyClaims, events |-> MaxEvents]

NextForceRetry ==
    \/ \E p \in Paths, t \in {"standard", "other"}, i \in 1..SoloJobs, now \in Times :
          AddJob(p, t, i, now)
    \/ Claim("w1")
    \/ Construct("w1")
    \/ \E o \in {"fail", "raise"} : RunStep("w1", o, FALSE)
    \/ Report("w1")
    \/ \E i \in 1..SoloJobs, k \in StepIndexArgs : ForceStart("w2", i, NoPath, k)
    \/ ForceFind("w2")
    \/ ForceUpdate("w2")
    \/ ForceRun("w2")

SpecForceRetry == InitForceRetry /\ [][NextForceRetry]_vars

\* SpecIO: two processes, their JobQueue constructed, on a queue file that holds
\* the empty well-formed document; each calls add_job and
\* claim_next_available_job in any order, and up to MaxEvents calls meet an
\* IOError of the file system.
InitIO ==
    /\ InitBase
    /\ lim = [jobs |-> MaxJobs, claims |-> 0, events |-> MaxEvents]

NextIO ==
    \/ \E w \in Workers, p \in Paths, i \in Ids : TxLoad(w, "add_job", p, i, 1)
    \/ \E w \in Workers : TxLoad(w, "claim_next_available_job", NoPath, NoId, 1)
    \/ \E w \in Workers : TxWrite(w)
    \/ \E w \in Workers, p \in Paths, stage \in LoadStages :
          TxLoadError(w, "add_job", p, stage)
    \/ \E w \in Workers, stage \in LoadStages :
          TxLoadError(w, "claim_next_available_job", NoPath, stage)
    \/ \E w \in Workers : TxWriteError(w)
    \/ \E w \in Workers : RecoverOpen(w)
    \/ \E w \in Workers : RecoverDump(w)

SpecIO == InitIO /\ [][NextIO]_vars

\* SpecRelease: two processes, their JobQueue constructed, on a queue file
\* whose document is well formed or malformed; together they make up to
\* MaxClaims calls of add_job and claim_next_available_job, each taken step by
\* step, with up to MaxEvents exceptions or I/O errors while the lock is held.
\* A process that is waiting for the lock, holds it or is in the except branch
\* goes on running (weak fairness on the steps of a call in progress).
InitRelease ==
    /\ jobs = <<>>
    /\ wk = [w \in Workers |-> IdleWorker]
    /\ files = [i \in Ids |-> {}]
    /\ ret = NoRet
    /\ spent = [events |-> 0, claims |-> 0]
    /\ lock = NoWorker
    /\ tx = [w \in Workers |-> NoTx]
    /\ form \in {"dict", "malformed"}
    /\ lim = [jobs |-> MaxJobs, claims |-> MaxClaims, events |-> MaxEvents]

TxProgress(w) ==
    \/ \E i \in Ids \cup {NoId} : TxGrant(w, i, 1)
    \/ TxWrite(w)
    \/ RecoverOpen(w)
    \/ RecoverDump(w)

NextRelease ==
    \/ \E w \in Workers, p \in Paths : TxOpen(w, "add_job", p)
    \/ \E w \in Workers : TxOpen(w, "claim_next_available_job", NoPath)
    \/ \E w \in Workers : TxProgress(w)
    \/ \E w \in Workers : TxAbort(w)
    \/ \E w \in Workers : TxWriteError(w)

SpecRelease ==
    InitRelease /\ [][NextRelease]_vars /\ \A w \in Workers : WF_vars(TxProgress(w))

\* SpecStep: up to MaxJobs jobs of either type, worker w1 polling and running
\* them without failures, and a client that calls update_job_step_status up to
\* MaxEvents times with any job id, step name and status.
InitStep ==
    /\ InitBase
    /\ lim = [jobs |-> MaxJobs, claims |-> FewClaims, events |-> MaxEvents]

NextStep ==
    \/ \E p \in Paths, t \in JobTypeArgs, i \in Ids : AddJob(p, t, i, 1)
    \/ Claim("w1")
    \/ Construct("w1")
    \/ SkipStep("w1")
    \/ RunStep("w1", "ok", FALSE)
    \/ Probe("w1", TRUE)
    \/ Report("w1")
    \/ \E i \in Ids \cup {NoId}, k \in 0..Len(step_order), st \in StepStatuses :
          UpdateStep(i, k, st)

SpecStep == InitStep /\ [][NextStep]_vars

\* SpecExec: SpecLock with one standard job and each step's call taken in two
\* steps, the external tool running in between.
InitExec ==
    /\ InitBase
    /\ lim = [jobs |-> SoloJobs, claims |-> FewClaims, events |-> 0]

NextExec ==
    \/ \E p \in Paths, i \in 1..SoloJobs, now \in Times : AddJob(p, "standard", i, now)
    \/ \E w \in Workers : LockClaim(w)
    \/ \E w \in Workers : ReadClaim(w)
    \/ \E w \in Workers : WriteClaim(w)
    \/ \E w \in Workers : Construct(w)
    \/ \E w \in Workers : SkipStep(w)
    \/ \E w \in Workers : ExecStep(w)
    \/ \E w \in Workers, o \in {"ok", "fail", "raise"} : FinishStep(w, o)
    \/ \E w \in Workers : Report(w)

SpecExec == InitExec /\ [][NextExec]_vars

\* SpecStore: two processes on a queue file that may be missing, empty, in the
\* legacy list form, well formed or malformed when they start; each constructs a
\* JobQueue and then calls add_job and claim_next_available_job in any order.
InitStore ==
    /\ jobs = <<>>
    /\ wk = [w \in Workers |-> IdleWorker]
    /\ files = [i \in Ids |-> {}]
    /\ ret = NoRet
    /\ spent = [events |-> 0, claims |-> 0]
    /\ lock = NoWorker
    /\ tx = [w \in Workers |-> [NoTx EXCEPT !.phase = "new"]]
    /\ form \in DocForms
    /\ lim = [jobs |-> MaxJobs, claims |-> 0, events |-> 0]

NextStore ==
    \/ \E w \in Workers : InitExists(w)
    \/ \E w \in Workers : InitOpen(w)
    \/ \E w \in Workers : InitDump(w)
    \/ \E w \in Workers, p \in Paths, i \in Ids, now \in Times :
          TxLoad(w, "add_job", p, i, now)
    \/ \E w \in Workers : TxLoad(w, "claim_next_available_job", NoPath, NoId, 1)
    \/ \E w \in Workers : TxWrite(w)
    \/ \E w \in Workers : RecoverOpen(w)
    \/ \E w \in Workers : RecoverDump(w)

SpecStore == InitStore /\ [][NextStore]_vars

\* SpecRecover: one process, its JobQueue already constructed, on a queue file
\* whose document is malformed.
InitRecover ==
    /\ jobs = <<>>
    /\ wk = [w \in Workers |-> IdleWorker]
    /\ files = [i \in Ids |-> {}]
    /\ ret = NoRet
    /\ spent = [events |-> 0, claims |-> 0]
    /\ lock = NoWorker
    /\ tx = [w \in Workers |-> NoTx]
    /\ form = "malformed"
    /\ lim = [jobs |-> MaxJobs, claims |-> 0, events |-> 0]

NextRecover ==
    \/ \E p \in Paths, i \in Ids, now \in Times : TxLoad("w1", "add_job", p, i, now)
    \/ TxLoad("w1", "claim_next_available_job", NoPath, NoId, 1)
    \/ TxWrite("w1")
    \/ RecoverOpen("w1")
    \/ RecoverDump("w1")

SpecRecover == InitRecover /\ [][NextRecover]_vars

\* SpecForce: one standard job, worker w1 polling and worker w2 started with
\* --force-rerun and --job-id.
InitForce ==
    /\ InitBase
    /\ lim = [jobs |-> SoloJobs, claims |-> FewClaims, events |-> MaxEvents]

NextForce ==
    \/ \E p \in Paths, t \in {"standard", "other"}, i \in 1..SoloJobs, now \in Times :
          AddJob(p, t, i, now)
    \/ Claim("w1")
    \/ Construct("w1")
    \/ SkipStep("w1")
    \/ \E o \in {"ok", "fail", "raise"} : RunStep("w1", o, FALSE)
    \/ Report("w1")
    \/ \E i \in Ids, k \in StepIndexArgs : ForceStart("w2", i, NoPath, k)
    \/ ForceFind("w2")
    \/ ForceUpdate("w2")
    \/ ForceRun("w2")

SpecForce == InitForce /\ [][NextForce]_vars

\* ------------------------------------------------------------- properties
\* The record stored for a job id, NoJob when there is none.
Stored(queue, job_id) ==
    LET i == IndexOfId(queue, job_id) IN IF i = 0 THEN NoJob ELSE queue[i]

\* A step in which claim_next_available_job returns to worker w: a job, or None.
ClaimReturns(w) ==
    wk[w].pc \in {"start", "loop"} /\ wk'[w].pc \in {"construct", "exited"}

ClaimReturnsJob(w) ==
    wk[w].pc \in {"start", "loop"} /\ wk'[w].pc = "construct"

\* The record is eligible once the quarantine loop of the transaction has run.
EligibleAfterQuarantine(job) ==
    \/ job.status = "pending"
    \/ (job.status = "failed" /\ job.retries < max_retries)

\* C1: with the workers' claim calls interleaved in every way the lock allows,
\* a claim call returns a job only if the stored status of that job is pending or
\* failed when the call writes (so never running: every return of a job follows a
\* change of its status away from running), the call leaves it running, and no
\* other worker holds that job at that moment.
C1_ClaimedOncePerStatusChange ==
    [][\A w \in Workers :
          ClaimReturnsJob(w) =>
             LET id == wk'[w].job.id
             IN  /\ Stored(jobs, id).status \in {"pending", "failed"}
                 /\ Stored(jobs', id).status = "running"
                 /\ \A v \in Workers \ {w} : ~(Active(v) /\ wk[v].job.id = id)]_vars

\* One worker holds a job it claimed for the second time (after its first run was
\* recorded failed) while the other worker's claim call, having taken the lock and
\* read the queue, found nothing to return.
C1_Witness ==
    \E w, v \in Workers :
        /\ w # v
        /\ Active(w) /\ wk[w].job.retries = 2
        /\ Stored(jobs, wk[w].job.id).status = "running"
        /\ tx[v].phase = "operated" /\ ~tx[v].ok

\* C2: in every reachable state no two workers hold an active claim on the same
\* job (are between the return of their claim and the recording of its outcome).
C2_AtMostOneActiveClaim ==
    \A w, v \in Workers :
        (w # v /\ Active(w) /\ Active(v)) => wk[w].job.id # wk[v].job.id

OnePerPath ==
    \A i, k \in 1..Len(jobs) : jobs[i].input_path = jobs[k].input_path => i = k

C4_FIFO ==
    [][\A w \in Workers :
          ClaimReturnsJob(w) =>
             LET got == Stored(jobs, wk'[w].job.id)
             IN  /\ EligibleAfterQuarantine(got)
                 /\ \A i \in 1..Len(jobs) :
                       EligibleAfterQuarantine(jobs[i]) => got.added_at <= jobs[i].added_at]_vars

\* A worker has been returned the second record of the file, which was added with
\* a smaller timestamp than the first one, still pending.
C4_Witness ==
    \E w \in Workers :
        /\ wk[w].pc = "construct"
        /\ Len(jobs) = 2
        /\ jobs[2].id = wk[w].job.id
        /\ jobs[1].status = "pending"
        /\ jobs[2].added_at < jobs[1].added_at

\* C5: a claim call finds every failed job below max_retries eligible (it is not
\* quarantined and the call returns a job), turns every failed job that has reached
\* max_retries into failed_permanent without returning it, and neither changes nor
\* returns a job that is failed_permanent; the quarantined job has been claimed
\* exactly max_retries times (3 runs failed, quarantined at the 4th attempt).
C5_QuarantineThreshold ==
    /\ [](\A i \in 1..Len(jobs) :
             jobs[i].status = "failed_permanent" => jobs[i].retries = max_retries)
    /\ [][\A w \in Workers :
             ClaimReturns(w) =>
                \A i \in 1..Len(jobs) :
                   LET job == jobs[i]
                       returned == wk'[w].pc = "construct" /\ wk'[w].job.id = job.id
                   IN  /\ (job.status = "failed" /\ job.retries < max_retries) =>
                             (jobs'[i].status # "failed_permanent" /\ wk'[w].pc = "construct")
                       /\ (job.status = "failed" /\ job.retries >= max_retries) =>
                             (jobs'[i].status = "failed_permanent" /\ ~returned)
                       /\ job.status = "failed_permanent" =>
                             (jobs'[i] = job /\ ~returned)]_vars

\* A job is quarantined after its third claim, and the worker whose claim call
\* quarantined it was returned nothing and has left its loop.
C5_Witness ==
    \E i \in 1..Len(jobs), w \in Workers :
        /\ jobs[i].status = "failed_permanent"
        /\ jobs[i].retries = 3
        /\ spent.claims = 3
        /\ wk[w].pc = "exited"

\* C6: in every reachable state a failed_permanent job has retries >= max_retries,
\* and the job a claim call returns is neither failed_permanent when the call
\* starts nor made failed_permanent by the quarantine loop of that call.
C6_QuarantinedNeverSelected ==
    /\ [](\A i \in 1..Len(jobs) :
             jobs[i].status = "failed_permanent" => jobs[i].retries >= max_retries)
    /\ [][\A w \in Workers :
             ClaimReturnsJob(w) =>
                LET got == Stored(jobs, wk'[w].job.id)
                IN  /\ got.status # "failed_permanent"
                    /\ Stored(Quarantine(jobs, max_retries), got.id).status
                          # "failed_permanent"]_vars

\* A job is quarantined and both workers have since asked for a job and were
\* returned none.
C6_Witness ==
    /\ \E i \in 1..Len(jobs) :
          jobs[i].status = "failed_permanent" /\ jobs[i].retries >= max_retries
    /\ \A w \in Workers : wk[w].pc = "exited"

\* C7: in every reachable state a job whose status is done has every entry of
\* its steps mapping equal to completed.
C7_DoneImpliesAllCompleted ==
    \A i \in 1..Len(jobs) :
        jobs[i].status = "done" =>
            \A n \in DOMAIN jobs[i].steps : jobs[i].steps[n] = "completed"

\* A step in which worker w gets past the run_step call it is at.
PassesStep(w) ==
    /\ wk[w].pc = "stage"
    /\ Stage(w) # ProbeStage
    /\ wk'[w].pc \in {"stage", "report"}
    /\ wk'[w] # wk[w]

\* C8: when the pipeline gets past a step X, it has invoked X's function in that
\* step unless steps[X] is completed and X's file exists, and in that case it has
\* not: the set of functions invoked grows by X exactly when the checkpoint is
\* not completed or the file is missing.
C8_ResumeContract ==
    [][\A w \in Workers :
          PassesStep(w) =>
             LET X == Stage(w)
                 job == Stored(jobs, wk[w].job.id)
                 trusted == /\ job.steps[X] = "completed"
                            /\ FileToCheck(job.job_type, X) \in files[job.id]
             IN  wk'[w].invoked = wk[w].invoked \cup (IF trusted THEN {} ELSE {X})]_vars

\* In one run the pipeline has skipped a completed step whose file exists and
\* invoked a step that was completed but whose file was gone.
C8_Witness ==
    \E w \in Workers :
        /\ wk[w].pc \in {"stage", "report"}
        /\ \E X \in wk[w].invoked : wk[w].job.steps[X] = "completed"
        /\ \E Y \in DOMAIN wk[w].job.steps :
              /\ wk[w].job.steps[Y] = "completed"
              /\ Y \notin wk[w].invoked
              /\ \E p \in 1..(wk[w].pos - 1) : Plan(wk[w].job.job_type)[p] = Y

PlanPos(job_type, step) ==
    CHOOSE p \in 1..Len(Plan(job_type)) : Plan(job_type)[p] = step

\* C9: once the function of a step has failed in a run, the run has returned
\* failure: the worker is past transcode() with no success, and no step later in
\* the list has been invoked in that run.
C9_FailureStopsRun ==
    \A w \in Workers :
        \A X \in wk[w].failed :
            /\ wk[w].pc = "report"
            /\ ~wk[w].success
            /\ \A Y \in wk[w].invoked :
                  PlanPos(wk[w].job.job_type, Y) <= PlanPos(wk[w].job.job_type, X)

\* C10: a reset_job_progress or force_reset_job_progress call that succeeds with
\* k within the job's own step list leaves the steps before position k of that
\* list as they were, sets the steps from position k on to pending, leaves the job
\* failed with retries 0, and leaves every other job as it was.
C10_ResetCorrect ==
    [][(/\ ret'.op \in {"reset_job_progress", "force_reset_job_progress"}
        /\ ret'.ok
        /\ ret'.k <= Len(StepsOf(Stored(jobs, ret'.id).job_type)))
       => LET i == IndexOfId(jobs, ret'.id)
              own == StepsOf(jobs[i].job_type)
          IN  /\ Len(jobs') = Len(jobs)
              /\ \A m \in 1..Len(jobs) : m # i => jobs'[m] = jobs[m]
              /\ jobs'[i].status = "failed"
              /\ jobs'[i].retries = 0
              /\ \A p \in 1..Len(own) :
                    jobs'[i].steps[own[p]] =
                        IF p >= ret'.k THEN "pending" ELSE jobs[i].steps[own[p]]]_vars

\* C11: a reset_job_progress or force_reset_job_progress call whose
\* from_step_index lies outside 1..len(steps) of the job it targets reports
\* failure and leaves the stored queue as it was.
C11_ResetIndexValidated ==
    [][(/\ ret'.op \in {"reset_job_progress", "force_reset_job_progress"}
        /\ ret'.id # NoId
        /\ Stored(jobs, ret'.id) # NoJob
        /\ ret'.k \notin 1..Len(StepsOf(Stored(jobs, ret'.id).job_type)))
       => (~ret'.ok /\ jobs' = jobs)]_vars

\* C12: a reset that succeeds on a failed_permanent job leaves it eligible
\* (failed, with retries 0); a claim call that finds a job failed with retries 0
\* and no eligible job added earlier returns that job with retries 1; and a claim
\* call quarantines a job only at max_retries, so the job is again claimed
\* max_retries times before it is failed_permanent again.
C12_ResetOverridesQuarantine ==
    /\ [](\A i \in 1..Len(jobs) :
             jobs[i].status = "failed_permanent" => jobs[i].retries = max_retries)
    /\ [][(/\ ret'.op \in {"reset_job_progress", "force_reset_job_progress"}
           /\ ret'.ok
           /\ Stored(jobs, ret'.id).status = "failed_permanent")
          => (/\ Stored(jobs', ret'.id).status = "failed"
              /\ Stored(jobs', ret'.id).retries = 0)]_vars
    /\ [][\A w \in Workers :
             ClaimReturns(w) =>
                \A i \in 1..Len(jobs) :
                   /\ (/\ jobs[i].status = "failed" /\ jobs[i].retries = 0
                       /\ \A m \in 1..Len(jobs) :
                             (m # i /\ EligibleAfterQuarantine(jobs[m]))
                                => jobs[i].added_at < jobs[m].added_at)
                      => (/\ wk'[w].pc = "construct"
                          /\ wk'[w].job.id = jobs[i].id
                          /\ wk'[w].job.retries = 1
                          /\ jobs'[i].status = "running")
                   /\ (jobs[i].status = "failed" /\ jobs[i].retries < max_retries)
                      => jobs'[i].status # "failed_permanent"]_vars

\* Three claims have failed, both workers have left their loops (the last of them
\* on the claim attempt that quarantined the job), and the operator's reset has
\* just made the job failed with retries 0.
C12_Witness ==
    /\ ret.op \in {"reset_job_progress", "force_reset_job_progress"} /\ ret.ok
    /\ spent.claims = max_retries
    /\ \A w \in Workers : wk[w].pc = "exited"
    /\ Stored(jobs, ret.id).status = "failed"
    /\ Stored(jobs, ret.id).retries = 0

\* The job has been quarantined a second time, after six claims and one reset.
C12_Requarantined ==
    /\ \E i \in 1..Len(jobs) : jobs[i].status = "failed_permanent"
    /\ spent.claims = 2 * max_retries
    /\ spent.events = 1

\* C13: corruption recovery.  A call that finds a malformed document returns to
\* its caller (with None) instead of raising, and leaves an empty, well-formed
\* document; from then on the document never is malformed again, every call
\* loads it and applies its operation, and what the call persists is what the
\* operation left.
C13_CorruptionRecovery ==
    /\ [][(tx["w1"].phase = "idle" /\ tx'["w1"].phase # "idle")
             => IF form = "malformed"
                THEN tx'["w1"].phase = "recovering" /\ lock' = NoWorker
                ELSE tx'["w1"].phase = "operated" /\ tx'["w1"].applied = 1]_vars
    /\ [][(tx["w1"].phase = "resetting" /\ tx'["w1"].phase = "idle")
             => (/\ ret'.op = tx["w1"].op
                 /\ ~ret'.ok
                 /\ form' = "dict"
                 /\ jobs' = <<>>)]_vars
    /\ [][(tx["w1"].phase = "operated" /\ tx'["w1"].phase = "idle")
             => (/\ form' = "dict"
                 /\ jobs' = tx["w1"].data
                 /\ ret'.ok = tx["w1"].ok)]_vars
    /\ [][form # "malformed" => form' # "malformed"]_vars

\* After the recovery, an add_job and a claim have loaded and changed the store.
C13_Witness ==
    /\ form = "dict"
    /\ Len(jobs) = MaxJobs
    /\ ret.op = "claim_next_available_job"
    /\ ret.ok
    /\ Stored(jobs, ret.id).status = "running"


C15_LoadsOnlyCompletedWrites ==
    [][\A w \in Workers :
          (tx[w].phase = "idle" /\ tx'[w].phase # "idle")
             => \A v \in Workers \ {w} :
                   tx[v].phase \notin {"creating", "operated", "resetting"}]_vars


\* C16: every write of the queue file is made inside the transaction
\* primitive by the process that holds the exclusive lock, the creation of the
\* file and the reset after a parse failure included.
C16_WritesUnderLock ==
    [][(jobs' # jobs \/ form' # form)
          => \E w \in Workers :
                /\ lock = w
                /\ tx[w].phase = "operated"
                /\ tx'[w].phase = "idle"]_vars


\* C17: no worker holds the queue lock while the external tool of a step is
\* running, and the lock is held only between the acquisition and the release
\* of one _execute_with_lock call, during which its holder starts no other
\* queue operation: a worker that is constructing the transcoder, at a step,
\* running a step's tool or about to report (and so about to call
\* update_job_step_status or update_job_status) holds no lock.
C17_LockOnlyInsideTransaction ==
    \A w \in Workers :
        /\ wk[w].pc = "exec" => (lock # w /\ tx[w].phase = "idle")
        /\ lock = w => (tx[w].phase \in {"locked", "operated"} /\ wk[w].pc \in {"start", "loop"})
        /\ wk[w].pc \in {"construct", "stage", "exec", "report"} => lock # w

\* One worker's external tool is running for the job's third step while the
\* other worker is inside a claim call and holds the lock.
C17_Witness ==
    \E w, v \in Workers :
        /\ wk[w].pc = "exec"
        /\ Stage(w) = "reencode_x265"
        /\ lock = v
        /\ v # w
        /\ tx[v].phase = "operated"


\* C18: every change a worker makes to the stored record of the job it was
\* handed (a step's status, the job's status) is made while the record's
\* worker_id names that worker.
C18_OnlyClaimHolderWrites ==
    [][\A w \in Workers :
          (/\ Active(w)
           /\ wk'[w] # wk[w]
           /\ Stored(jobs', wk[w].job.id) # Stored(jobs, wk[w].job.id))
             => Stored(jobs, wk[w].job.id).worker_id = w]_vars


\* The steps of a standard job after a first run whose second step failed.
SecondStepFailed ==
    [copy_source |-> "completed", get_metadata |-> "failed",
     reencode_x265 |-> "pending", move_final |-> "pending"]

\* The worker reports the outcome of its run (update_job_status).
Reports(w) == wk[w].pc = "report" /\ wk'[w].pc = "loop"

\* C19: the end-to-end scenario on a store holding one standard job.  (a) When
\* the worker of the first claim reports a run in which copy_source succeeded
\* and get_metadata failed, the record has status failed, retries 1 and steps
\* completed, failed, pending, pending.  (b) A claim on that record returns the
\* same job, running, with retries 2 and the claimer's name.  (c) When the
\* worker of that second claim reports a run in which the remaining three
\* steps succeeded, the record has status done, its output path, and every
\* step completed.
C19_FailedThenResumedToDone ==
    /\ [][\A w \in Workers :
            (/\ Reports(w)
             /\ Len(jobs) = 1
             /\ wk[w].job.job_type = "standard"
             /\ wk[w].job.retries = 1
             /\ wk[w].invoked = {"copy_source", "get_metadata"}
             /\ wk[w].failed = {"get_metadata"})
               => (/\ jobs'[1].id = wk[w].job.id
                   /\ jobs'[1].status = "failed"
                   /\ jobs'[1].retries = 1
                   /\ jobs'[1].steps = SecondStepFailed)]_vars
    /\ [][\A w \in Workers :
            (/\ ClaimReturns(w)
             /\ Len(jobs) = 1
             /\ jobs[1].status = "failed"
             /\ jobs[1].retries = 1)
               => (/\ wk'[w].pc = "construct"
                   /\ wk'[w].job = jobs'[1]
                   /\ jobs'[1] = [jobs[1] EXCEPT !.status = "running", !.retries = 2,
                                                 !.worker_id = w, !.claimed_at = "set"])]_vars
    /\ [][\A w \in Workers :
            (/\ Reports(w)
             /\ Len(jobs) = 1
             /\ wk[w].job.retries = 2
             /\ wk[w].job.steps = SecondStepFailed
             /\ wk[w].invoked = {"get_metadata", "reencode_x265", "move_final"}
             /\ wk[w].failed = {})
               => (/\ jobs'[1].id = wk[w].job.id
                   /\ jobs'[1].status = "done"
                   /\ jobs'[1].retries = 2
                   /\ jobs'[1].output_path = OutputPath(wk[w].job)
                   /\ jobs'[1].output_path # NoOutput
                   /\ \A X \in DOMAIN jobs'[1].steps : jobs'[1].steps[X] = "completed")]_vars

\* W1 has reported its failed run; W2, handed the job with retries 2 and the
\* second step failed, has run steps 2 to 4 with success and is about to report.
C19_Witness ==
    /\ Len(jobs) = 1
    /\ wk["w1"].pc = "loop"
    /\ wk["w2"].pc = "report"
    /\ wk["w2"].success
    /\ wk["w2"].job.retries = 2
    /\ wk["w2"].job.steps = SecondStepFailed
    /\ wk["w2"].invoked = {"get_metadata", "reencode_x265", "move_final"}
    /\ jobs[1].worker_id = "w2"
    /\ jobs[1].status = "running"


\* C20: when the function of a step fails, the step is recorded failed and the
\* worker stays alive in its run; and when a worker that is not killed leaves a
\* run in which a step's function failed, the job's status is recorded failed,
\* the failed steps are still recorded failed, and the worker is back in its
\* loop, about to call claim_next_available_job again.
C20_StepFailureRecovered ==
    /\ [][\A w \in Workers :
            (wk[w].pc = "stage" /\ wk'[w].failed # wk[w].failed /\ wk'[w].pc # "dead")
               => (/\ wk'[w].pc \in {"stage", "report"}
                   /\ \A X \in wk'[w].failed \ wk[w].failed :
                         Stored(jobs', wk[w].job.id).steps[X] = "failed")]_vars
    /\ [][\A w \in Workers :
            (/\ wk[w].pc = "report"
             /\ wk[w].failed # {}
             /\ wk'[w] # wk[w]
             /\ spent' = spent)
               => (/\ wk'[w].pc = "loop"
                   /\ \A X \in wk[w].failed :
                         Stored(jobs', wk[w].job.id).steps[X] = "failed"
                   /\ Stored(jobs', wk[w].job.id).status = "failed")]_vars


\* C21: a worker's process ends on a fault only while it holds a claimed job
\* (constructing the transcoder or running the pipeline); the step that ends it
\* leaves the stored status of that job failed, with the job's retries and
\* steps as they were; and the ended worker claims nothing afterwards.
C21_FaultMarksFailedAndEnds ==
    /\ [][\A w \in Workers :
            (wk[w].pc # "dead" /\ wk'[w].pc = "dead")
               => (/\ wk[w].pc \in {"construct", "stage"}
                   /\ Stored(jobs', wk[w].job.id).status = "failed"
                   /\ Stored(jobs', wk[w].job.id).retries
                         = Stored(jobs, wk[w].job.id).retries
                   /\ Stored(jobs', wk[w].job.id).steps
                         = Stored(jobs, wk[w].job.id).steps)]_vars
    /\ [][\A w \in Workers : wk[w].pc = "dead" => wk'[w] = wk[w]]_vars

\* A worker ended on a fault in the second run of the job; the job is stored
\* failed with retries 2 and the other worker, which ran it first, is alive.
C21_Witness ==
    \E w, v \in Workers :
        /\ w # v
        /\ wk[w].pc = "dead"
        /\ wk[v].pc \in {"loop", "exited"}
        /\ Len(jobs) = 1
        /\ jobs[1].status = "failed"
        /\ jobs[1].retries = 2
        /\ jobs[1].worker_id = w


\* A successful reset of the job with this id is what the step has just done.
ResetApplied(job_id) ==
    /\ ret'.op \in {"reset_job_progress", "force_reset_job_progress"}
    /\ ret'.ok
    /\ ret'.id = job_id

\* The job is stored running and the worker recorded as its holder is dead.
Orphaned(job) ==
    /\ job.status = "running"
    /\ job.worker_id \in Workers
    /\ wk[job.worker_id].pc = "dead"

\* C22: a job stored running whose recorded holder's process has ended without
\* recording an outcome keeps its record (status running, same holder, same
\* retries: no claim returns it) in every step that is not a reset of that job.
C22_NoLeaseExpiry ==
    [][\A i \in 1..Len(jobs) :
          (Orphaned(jobs[i]) /\ ~ResetApplied(jobs[i].id))
             => (/\ Len(jobs') = Len(jobs)
                 /\ jobs'[i].status = "running"
                 /\ jobs'[i].worker_id = jobs[i].worker_id
                 /\ jobs'[i].retries = jobs[i].retries)]_vars


\* C23: in every state the step keys of every stored job are the ones of the
\* step list of its job_type, and no step (step update, status update, claim,
\* reset, forced reset, the write of the force-rerun claim) changes the keys of
\* a record that stays in the store.
C23_StepKeysFixed ==
    /\ [](\A i \in 1..Len(jobs) :
             DOMAIN jobs[i].steps = Range(StepsOf(jobs[i].job_type)))
    /\ [][\A i \in 1..Len(jobs) :
             /\ Len(jobs') >= Len(jobs)
             /\ DOMAIN jobs'[i].steps = DOMAIN jobs[i].steps]_vars

\* A standard job, one step completed by the worker, after a reset from index 3,
\* which names three steps the job does not have, while the worker runs it.
C23_Witness ==
    /\ Len(jobs) = 1
    /\ jobs[1].job_type = "standard"
    /\ ret.op \in {"reset_job_progress", "force_reset_job_progress"}
    /\ ret.ok
    /\ ret.k = 3
    /\ jobs[1].steps["copy_source"] = "completed"
    /\ jobs[1].steps["reencode_x265"] = "pending"
    /\ wk["w1"].pc = "stage"


\* C24: ids are unique among the stored records, and no step changes the id,
\* the input_path or the job_type of a record or removes a record.
C24_IdentityImmutable ==
    /\ [](\A i, k \in 1..Len(jobs) : jobs[i].id = jobs[k].id => i = k)
    /\ [][\A i \in 1..Len(jobs) :
             /\ Len(jobs') >= Len(jobs)
             /\ jobs'[i].id = jobs[i].id
             /\ jobs'[i].input_path = jobs[i].input_path
             /\ jobs'[i].job_type = jobs[i].job_type]_vars

\* The --force-rerun worker has written its copy over the second of two
\* records, selected by input path, while the polling worker runs the first.
C24_Witness ==
    /\ Len(jobs) = 2
    /\ wk["w2"].pc = "force_run"
    /\ wk["w2"].sel_path = jobs[2].input_path
    /\ wk["w2"].job.id = jobs[2].id
    /\ jobs[2].worker_id = "w2"
    /\ wk["w1"].pc = "stage"
    /\ wk["w1"].job.id = jobs[1].id


\* The record either is unchanged by the step or was failed and is now
\* failed_permanent, nothing else of it changed.
SameOrQuarantined(before, after) ==
    \/ after = before
    \/ (before.status = "failed" /\ after = [before EXCEPT !.status = "failed_permanent"])

\* C25: a claim call by w that returns a job has, in that one step, taken a
\* record that was pending or failed, set its status running, its worker_id w,
\* its claimed_at, and its retries one higher, changed nothing else of it, and
\* returned the record as persisted; every other record is unchanged or was
\* flipped from failed to failed_permanent.  A claim call returns no job
\* exactly when no record is pending or failed once the quarantine is applied,
\* and then it changes nothing but such flips.
C25_ClaimTransaction ==
    /\ [][\A w \in Workers :
            ClaimReturnsJob(w) =>
               /\ Len(jobs') = Len(jobs)
               /\ \E i \in 1..Len(jobs) :
                    /\ EligibleAfterQuarantine(jobs[i])
                    /\ jobs'[i] = [jobs[i] EXCEPT !.status = "running",
                                                  !.worker_id = w,
                                                  !.claimed_at = "set",
                                                  !.retries = jobs[i].retries + 1]
                    /\ wk'[w].job = jobs'[i]
                    /\ \A k \in 1..Len(jobs) \ {i} : SameOrQuarantined(jobs[k], jobs'[k])]_vars
    /\ [][\A w \in Workers :
            ClaimReturns(w) =>
               (wk'[w].pc = "exited"
                  <=> ~\E i \in 1..Len(jobs) : EligibleAfterQuarantine(jobs[i]))]_vars
    /\ [][\A w \in Workers :
            (ClaimReturns(w) /\ wk'[w].pc = "exited") =>
               /\ Len(jobs') = Len(jobs)
               /\ \A k \in 1..Len(jobs) : SameOrQuarantined(jobs[k], jobs'[k])]_vars

\* The fourth claim, with no claim so far having returned no job: it has
\* quarantined the job that failed three times and returned the other one.
C25_Witness ==
    \E w \in Workers :
        /\ wk[w].pc = "construct"
        /\ spent.claims = max_retries + 1
        /\ \A v \in Workers : wk[v].pc # "exited"
        /\ Len(jobs) = 2
        /\ \E i, k \in 1..2 :
              /\ jobs[i].status = "failed_permanent"
              /\ jobs[i].retries = max_retries
              /\ jobs[k] = wk[w].job
              /\ jobs[k].status = "running"
              /\ jobs[k].retries = 1
              /\ jobs[k].worker_id = w


\* The position of a step in the step list of its job type.
StepPos(job_type, step) ==
    CHOOSE p \in 1..Len(StepsOf(job_type)) : StepsOf(job_type)[p] = step

\* C26: when a run has stopped at a step whose function failed, every step
\* after that step in the job's list is stored pending.
C26_LaterStepsPending ==
    \A w \in Workers :
        (/\ wk[w].pc = "report"
         /\ ~wk[w].success
         /\ Stage(w) \in wk[w].failed)
           => LET job == Stored(jobs, wk[w].job.id)
                  list == StepsOf(job.job_type)
              IN  \A p \in 1..Len(list) :
                     p > StepPos(job.job_type, Stage(w)) => job.steps[list[p]] = "pending"


\* C27: among the eligible records that share the creation time of the record
\* a claim returns, the returned one has the smallest id.
C27_TiesBrokenById ==
    [][\A w \in Workers :
          ClaimReturnsJob(w) =>
             \A k \in 1..Len(jobs) :
                (/\ EligibleAfterQuarantine(jobs[k])
                 /\ jobs[k].added_at = wk'[w].job.added_at)
                   => wk'[w].job.id <= jobs[k].id]_vars


\* The record is failed and has used up its retries.
Exhausted(job) == job.status = "failed" /\ job.retries >= max_retries

\* C28: every claim call, whether it returns a job or not, flips every failed
\* record with retries >= max_retries to failed_permanent and changes nothing
\* else of it; right after the call no record is failed with retries >=
\* max_retries.
C28_QuarantinesAll ==
    [][\A w \in Workers :
          ClaimReturns(w) =>
             /\ Len(jobs') = Len(jobs)
             /\ \A i \in 1..Len(jobs) :
                   Exhausted(jobs[i])
                      => jobs'[i] = [jobs[i] EXCEPT !.status = "failed_permanent"]
             /\ \A i \in 1..Len(jobs') : ~Exhausted(jobs'[i])]_vars

\* Two records are failed with their retries used up at once, and a worker is
\* back in its loop, about to call claim_next_available_job.
C28_Witness ==
    /\ Len(jobs) = 2
    /\ Exhausted(jobs[1])
    /\ Exhausted(jobs[2])
    /\ \E w \in Workers : wk[w].pc = "loop"
    /\ lock = NoWorker

\* Both records quarantined with one worker only having been told "no job".
C28_BothQuarantined ==
    /\ Len(jobs) = 2
    /\ jobs[1].status = "failed_permanent"
    /\ jobs[2].status = "failed_permanent"
    /\ \E w, v \in Workers : wk[w].pc = "exited" /\ wk[v].pc = "loop"


\* The step dictionary the statement names for each supported job type.
FreshSteps(job_type) ==
    IF job_type = "standard"
    THEN [n \in {"copy_source", "get_metadata", "reencode_x265", "move_final"} |-> "pending"]
    ELSE [n \in {"copy_source", "get_metadata", "extract_p7", "convert_p8", "extract_rpu",
                 "reencode_x265", "inject_rpu", "remux_final", "move_final"} |-> "pending"]

\* C29: on every reachable store and for every input_path it does not hold,
\* add_job with job type standard or dolby_vision succeeds and appends one
\* record with status pending, retries 0, no worker_id, no output_path and
\* the type's steps (four or nine), all pending; with any other job type it
\* returns False and leaves the store as it is.  Every add_job step of the
\* system is one of these outcomes.
C29_AddJobCreatesRecord ==
    /\ [](\A p \in Paths, t \in JobTypeArgs, i \in Ids, now \in Times :
             (\A k \in 1..Len(jobs) : jobs[k].input_path # p)
                => LET r == add_job_op(jobs, p, t, i, now)
                   IN  IF t \in {"standard", "dolby_vision"}
                       THEN /\ r.ok
                            /\ Len(r.queue) = Len(jobs) + 1
                            /\ SubSeq(r.queue, 1, Len(jobs)) = jobs
                            /\ LET new == r.queue[Len(r.queue)]
                               IN  /\ new.input_path = p
                                   /\ new.job_type = t
                                   /\ new.status = "pending"
                                   /\ new.retries = 0
                                   /\ new.worker_id = NoWorker
                                   /\ new.output_path = NoOutput
                                   /\ new.steps = FreshSteps(t)
                                   /\ Cardinality(DOMAIN new.steps)
                                         = IF t = "standard" THEN 4 ELSE 9
                                   /\ StepsOf(t) = IF t = "standard" THEN StandardSteps
                                                   ELSE DolbyVisionSteps
                       ELSE ~r.ok /\ r.queue = jobs)
    /\ [][ret'.op = "add_job"
            => \/ (~ret'.ok /\ jobs' = jobs)
               \/ (/\ ret'.ok
                   /\ \A k \in 1..Len(jobs) : jobs[k].input_path # ret'.path
                   /\ \E t \in {"standard", "dolby_vision"}, i \in Ids, now \in Times :
                         jobs' = add_job_op(jobs, ret'.path, t, i, now).queue)]_vars

\* add_job has just created the record of a dolby_vision job.
C29_Witness ==
    /\ ret.op = "add_job"
    /\ ret.ok
    /\ Len(jobs) = 1
    /\ jobs[1].input_path = ret.path
    /\ jobs[1].job_type = "dolby_vision"
    /\ jobs[1].status = "pending"
    /\ jobs[1].retries = 0
    /\ Cardinality(DOMAIN jobs[1].steps) = 9

\* add_job has just refused a job type it does not know, on an empty store.
C29_UnknownTypeRefused ==
    /\ ret.op = "add_job"
    /\ ~ret.ok
    /\ jobs = <<>>


\* C30: a worker started with --force-rerun that has written its claim and is
\* about to process the job holds it: the record is stored running under that
\* worker's name; no polling worker's claim returns a job such a worker is
\* about to process; and the write of the claim changes worker_id and
\* claimed_at of the record as stored at that moment and nothing else.
C30_ForceRerunClaims ==
    /\ [](\A w \in Workers :
             wk[w].pc = "force_run"
                => (/\ Stored(jobs, wk[w].job.id).status = "running"
                    /\ Stored(jobs, wk[w].job.id).worker_id = w))
    /\ [][\A v \in Workers :
             ClaimReturnsJob(v)
                => ~\E w \in Workers \ {v} :
                       wk[w].pc = "force_run" /\ wk[w].job.id = wk'[v].job.id]_vars
    /\ [][\A w \in Workers :
             (wk[w].pc = "force_update" /\ wk'[w].pc = "force_run")
                => Stored(jobs', wk[w].job.id)
                      = [Stored(jobs, wk[w].job.id) EXCEPT !.worker_id = w,
                                                           !.claimed_at = "set"]]_vars

\* The three parts of C30, one by one.
C30_StoredRunning ==
    \A w \in Workers :
        wk[w].pc = "force_run"
           => (/\ Stored(jobs, wk[w].job.id).status = "running"
               /\ Stored(jobs, wk[w].job.id).worker_id = w)

C30_NotClaimedByOthers ==
    [][\A v \in Workers :
          ClaimReturnsJob(v)
             => ~\E w \in Workers \ {v} :
                    wk[w].pc = "force_run" /\ wk[w].job.id = wk'[v].job.id]_vars

C30_WriteKeepsOthersChanges ==
    [][\A w \in Workers :
          (wk[w].pc = "force_update" /\ wk'[w].pc = "force_run")
             => Stored(jobs', wk[w].job.id)
                   = [Stored(jobs, wk[w].job.id) EXCEPT !.worker_id = w,
                                                        !.claimed_at = "set"]]_vars

\* The worker is interrupted or killed while it re-executes a step its copy of
\* the job holds as completed, and the step's file is on disk afterwards.
InterruptedRerun(w) ==
    /\ Running(w)
    /\ wk[w].job.steps[Stage(w)] = "completed"
    /\ wk'[w].pc = "dead"
    /\ FileToCheck(wk[w].job.job_type, Stage(w)) \in files'[wk[w].job.id]

\* C31: when a step marked completed is re-executed because its file was missing
\* and the re-execution is interrupted (interrupt or kill) after leaving a
\* partial file, the step's stored status does not stay completed, so that a
\* later run does not skip the step on the strength of the partial file.
C31_InterruptedRerunNotSkipped ==
    [][\A w \in Workers :
          InterruptedRerun(w) =>
              Stored(jobs', wk[w].job.id).steps[Stage(w)] # "completed"]_vars

\* Every worker process has left its polling loop.
AllExited == \A w \in Workers : wk[w].pc = "exited"

\* Every stored job is done or quarantined.
Settled ==
    \A i \in 1..Len(jobs) : jobs[i].status \in {"done", "failed_permanent"}

\* C32: when every step's function returns, no worker is killed or meets an
\* unhandled fault, no operator resets a job and jobs are enqueued only while a
\* worker is still polling, every worker's loop eventually exits, and once all
\* workers have exited every job is done or failed_permanent: none is left
\* pending, failed or running.
C32_WorkersDrainQueue ==
    /\ <>AllExited
    /\ [](AllExited => Settled)

\* Both workers have exited and the job, claimed max_retries times and failed
\* each time, is quarantined.
C32_Witness ==
    /\ AllExited
    /\ Len(jobs) = SoloJobs
    /\ jobs[1].status = "failed_permanent"
    /\ jobs[1].retries = max_retries

\* Both workers have exited and the job, which failed once, is done.
C32_DoneAfterRetry ==
    /\ AllExited
    /\ Len(jobs) = SoloJobs
    /\ jobs[1].status = "done"
    /\ jobs[1].retries = 2

\* C33: in every reachable state every job has retries <= max_retries: between
\* its creation (or its latest reset) and its quarantine a job is claimed at most
\* max_retries times.  With one job, the claims made so far are then at most
\* max_retries for its creation and max_retries more for each reset made.
C33_ClaimsBounded ==
    /\ \A i \in 1..Len(jobs) : jobs[i].retries <= max_retries
    /\ lim.jobs = SoloJobs => spent.claims <= max_retries * (1 + spent.events)

\* In every reachable state every job has retries <= max_retries.
C33_RetriesBounded ==
    \A i \in 1..Len(jobs) : jobs[i].retries <= max_retries

\* A step lowers a job's retries only if it is a reset (the operator's, or the
\* forced reset a --force-rerun worker starts with), which sets it to 0, and
\* raises it only by 1, in the claim that returns the job: retries is the number
\* of claims of the job since its creation or latest reset.
C33_RetriesCountClaims ==
    [][\A i \in 1..Len(jobs) :
          \/ jobs'[i].retries = jobs[i].retries
          \/ /\ jobs'[i].retries = jobs[i].retries + 1
             /\ \E w \in Workers : ClaimReturnsJob(w) /\ wk'[w].job.id = jobs[i].id
          \/ /\ jobs'[i].retries = 0
             /\ \/ ResetApplied(jobs[i].id)
                \/ \E w \in Workers :
                      wk[w].pc = "start" /\ wk'[w].pc = "force_find"]_vars

HoldsJobs == form \in {"list", "dict"} /\ jobs # <<>>

\* C35: a well-formed persisted document is never discarded: a call enters the
\* reset-to-empty recovery only when the document does not parse, not when
\* opening, locking, reading or writing the file fails with an I/O error, and
\* the recovery never truncates a well-formed document that holds jobs.
C35_RecoveryOnlyOnParseFailure ==
    /\ [][\A w \in Workers :
            (tx[w].phase # "recovering" /\ tx'[w].phase = "recovering")
               => form = "malformed"]_vars
    /\ [][\A w \in Workers :
            (tx[w].phase = "recovering" /\ tx'[w].phase = "resetting")
               => ~HoldsJobs]_vars

\* The recovery never truncates a well-formed document that holds jobs.
C35_KeepsStoredJobs ==
    [][\A w \in Workers :
          (tx[w].phase = "recovering" /\ tx'[w].phase = "resetting")
             => ~HoldsJobs]_vars

\* C36: every _execute_with_lock call releases the lock on every exit path
\* (normal return, an exception while the operation runs, a parse failure, a
\* failed write): the lock is held only by a process between the grant and the
\* end of its load-mutate-persist cycle, every holder gives it up, and every
\* process that has asked for the lock is granted it.
C36_LockReleasedAndGranted ==
    /\ [](\A w \in Workers : lock = w => tx[w].phase = "operated")
    /\ \A w \in Workers : (lock = w) ~> (lock = NoWorker)
    /\ \A w \in Workers :
          (tx[w].phase = "waiting") ~> (tx[w].phase \in {"operated", "recovering"})

\* A process is granted the lock and completes its call after the other
\* process's call, interrupted while it held the lock, ended that process.
C36_Witness ==
    \E w, v \in Workers :
        /\ wk[v].pc = "dead"
        /\ tx[w].phase = "idle"
        /\ lock = NoWorker
        /\ ret.op = "claim_next_available_job"
        /\ ret.ok
        /\ Stored(jobs, ret.id).worker_id = w

\* A process is granted the lock after another process's call met a malformed
\* document and went through the recovery.
C36_GrantedAfterParseFailure ==
    \E w, v \in Workers :
        /\ w # v
        /\ tx[v].phase = "resetting"
        /\ tx[w].phase = "operated"
        /\ lock = w

\* The worker ends its run of the job it holds by setting the job's status to
\* failed: after transcode() returned False, or in the handler of worker.main.
MarksFailed(w) ==
    /\ Active(w)
    /\ wk'[w].pc \in {"loop", "dead"}
    /\ Stored(jobs, wk[w].job.id).status = "running"
    /\ Stored(jobs', wk[w].job.id).status = "failed"

\* C37: whenever a pipeline run ends in failure and the worker sets the job's
\* status to failed, at least one step of that job is stored as failed, for
\* both job types and at every point where the pipeline can abort.
C37_FailedRunHasFailedStep ==
    [][\A w \in Workers :
          MarksFailed(w) =>
             \E X \in DOMAIN Stored(jobs', wk[w].job.id).steps :
                Stored(jobs', wk[w].job.id).steps[X] = "failed"]_vars

\* The same for the runs that end because a step's function failed.
C37_StepFailureHasFailedStep ==
    [][\A w \in Workers :
          (MarksFailed(w) /\ wk[w].failed # {}) =>
             \E X \in DOMAIN Stored(jobs', wk[w].job.id).steps :
                Stored(jobs', wk[w].job.id).steps[X] = "failed"]_vars

\* The record differs from the one it was at most in the status of one step.
SameButStep(before, after, step) ==
    /\ DOMAIN after.steps = DOMAIN before.steps
    /\ \A X \in DOMAIN before.steps \ {step} : after.steps[X] = before.steps[X]
    /\ after = [before EXCEPT !.steps = after.steps]

\* Some stored job has the id and a step of that name.
HasStep(queue, job_id, step) ==
    \E i \in 1..Len(queue) : queue[i].id = job_id /\ step \in DOMAIN queue[i].steps

\* C38: update_job_step_status(job_id, step, status) changes only steps[step]
\* of the job with that id, to status: every other job, every other step and the
\* job's status, retries, worker_id and output_path are as they were; when no
\* job has that id, or the job has no step of that name, it returns False and
\* the store is unchanged.  Stated for every call made and, on every reachable
\* store, for every call that could be made.
C38_StepUpdateFrame ==
    /\ [](\A job_id \in Ids \cup {NoId}, k \in 0..Len(step_order), st \in StepStatuses :
            LET step == StepArg(k)
                r    == update_step_op(jobs, job_id, step, st)
            IN  IF HasStep(jobs, job_id, step)
                THEN /\ r.ok
                     /\ Len(r.queue) = Len(jobs)
                     /\ \A i \in 1..Len(jobs) :
                           IF jobs[i].id = job_id
                           THEN /\ SameButStep(jobs[i], r.queue[i], step)
                                /\ r.queue[i].steps[step] = st
                                /\ r.queue[i].status = jobs[i].status
                                /\ r.queue[i].retries = jobs[i].retries
                                /\ r.queue[i].worker_id = jobs[i].worker_id
                                /\ r.queue[i].output_path = jobs[i].output_path
                           ELSE r.queue[i] = jobs[i]
                ELSE ~r.ok /\ r.queue = jobs)
    /\ [][ret'.op = "update_job_step_status" =>
            IF HasStep(jobs, ret'.id, StepArg(ret'.k))
            THEN /\ ret'.ok
                 /\ Len(jobs') = Len(jobs)
                 /\ \A i \in 1..Len(jobs) :
                       IF jobs[i].id = ret'.id
                       THEN SameButStep(jobs[i], jobs'[i], StepArg(ret'.k))
                       ELSE jobs'[i] = jobs[i]
            ELSE ~ret'.ok /\ jobs' = jobs]_vars

\* A call has changed one step of a job that is done (its status, retries,
\* worker_id and output_path set by a worker) while the other job is stored too.
C38_Witness ==
    /\ ret.op = "update_job_step_status"
    /\ ret.ok
    /\ Len(jobs) = MaxJobs
    /\ Stored(jobs, ret.id).status = "done"
    /\ Stored(jobs, ret.id).retries = 1
    /\ Stored(jobs, ret.id).output_path # NoOutput
    /\ Stored(jobs, ret.id).steps[StepArg(ret.k)] = "failed"

\* A call naming a step the job does not have (a dolby_vision step, for a
\* standard job) has returned False.
C38_RefusedUnknownStep ==
    /\ ret.op = "update_job_step_status"
    /\ ~ret.ok
    /\ ret.k # 0
    /\ Stored(jobs, ret.id).job_type = "standard"

====
